---- MODULE Spec2Model ----
(***************************************************************************)
(* A model of src/bot.py (nvth/split-bill-bot): the VietQR payload encoder *)
(* (tlv, crc16_ccitt_false, normalize_amount, build_vietqr_payload), the   *)
(* handler create_qr_request that calls it, and the sizes and positions    *)
(* build_qr_background_image computes for the image of the code.           *)
(*                                                                         *)
(* A Python str is a sequence of characters; a character is a one-letter   *)
(* TLA+ string ("A", "7", " "), or a token "U+XXXX" for a character        *)
(* outside ASCII.  ord gives the code point.  None is the one-element      *)
(* sequence <<"None">>, which is no str (its element is no character).     *)
(***************************************************************************)
EXTENDS Integers, Sequences, FiniteSets, TLC

VARIABLES
    request,        \* build_vietqr_payload: the arguments of the call
    result,         \* build_vietqr_payload: what the call returned or raised
    data,           \* crc16_ccitt_false: the argument
    crc_out,        \* crc16_ccitt_false: the returned string
    accounts,       \* the accounts table: the rows of all users, in id order
    settings,       \* SETTINGS: DEFAULT_BANK_BIN, DEFAULT_ACCOUNT_NO, DEBUG, QR_*
    user_data,      \* context.user_data of every user: the key qr_pending
    replies,        \* the messages the last handler call sent, in order
    now,            \* time.time(), in seconds
    calls,          \* handler calls made so far
    given,          \* normalize_amount: the argument
    normalized,     \* normalize_amount: the returned string
    renormalized,   \* normalize_amount: what it returns for that string
    template,       \* the image file at BG_IMAGE_PATH
    line_sizes,     \* the sizes the font gives the three label lines
    image,          \* build_qr_background_image: what the last call computed
    builds,         \* calls of build_qr_background_image made so far
    group_chats,    \* the group_chats table: a set of rows
    account_call,   \* save_account / set_default_account: the last call
    admin_users,    \* the admin_users table: the user ids
    allowed_users,  \* the allowed_users table: the user ids
    access_requests,\* the access_requests table: the user ids
    outbox,         \* what context.bot sent so far: photos and messages
    dialog,         \* context.user_data of every user: the other keys
    event,          \* the update the last step handled: handler, user, data
    plain,          \* encrypt_value: the argument
    fernet_iv,      \* the random bytes FERNET.encrypt draws
    crypt           \* encrypt_value / decrypt_value: what the calls returned

encoderVars == <<request, result>>
crcVars == <<data, crc_out>>
botVars == <<accounts, settings, user_data, replies, now, calls>>
amountVars == <<given, normalized, renormalized>>
imageVars == <<template, line_sizes, image, builds>>
dbVars == <<group_chats, account_call>>
accessVars == <<admin_users, allowed_users, access_requests>>
cryptoVars == <<plain, fernet_iv, crypt>>
vars == <<request, result, data, crc_out, accounts, settings, user_data,
          replies, now, calls, given, normalized, renormalized,
          template, line_sizes, image, builds, group_chats, account_call,
          admin_users, allowed_users, access_requests, outbox, dialog, event,
          plain, fernet_iv, crypt>>

----------------------------------------------------------------------------
(* Characters and strings                                                  *)

None == <<"None">>

DecDigits == <<"0", "1", "2", "3", "4", "5", "6", "7", "8", "9">>
HexDigits == <<"0", "1", "2", "3", "4", "5", "6", "7", "8", "9",
               "A", "B", "C", "D", "E", "F">>
UpperLetters == <<"A", "B", "C", "D", "E", "F", "G", "H", "I", "J", "K", "L", "M",
                  "N", "O", "P", "Q", "R", "S", "T", "U", "V", "W", "X", "Y", "Z">>
LowerLetters == <<"a", "b", "c", "d", "e", "f", "g", "h", "i", "j", "k", "l", "m",
                  "n", "o", "p", "q", "r", "s", "t", "u", "v", "w", "x", "y", "z">>

\* Characters outside ASCII, by code point: U+00FF (y with diaeresis),
\* U+0663 (ARABIC-INDIC DIGIT THREE, a digit for str.isdigit), U+1EC5
\* (e with circumflex and tilde, as in "Nguyen" written with its accents).
OtherChars == {"U+00FF", "U+0663", "U+1EC5"}

Range(s) == {s[i] : i \in 1..Len(s)}

IndexOf(s, c) == CHOOSE i \in 1..Len(s) : s[i] = c

Chars == Range(DecDigits) \cup Range(UpperLetters) \cup Range(LowerLetters)
            \cup {" ", ".", ",", "-"} \cup OtherChars

\* ord(ch): the code point of a character.
ordTable == [c \in Chars |->
    IF c \in Range(DecDigits) THEN 47 + IndexOf(DecDigits, c)
    ELSE IF c \in Range(UpperLetters) THEN 64 + IndexOf(UpperLetters, c)
    ELSE IF c \in Range(LowerLetters) THEN 96 + IndexOf(LowerLetters, c)
    ELSE IF c = " " THEN 32
    ELSE IF c = "," THEN 44
    ELSE IF c = "-" THEN 45
    ELSE IF c = "." THEN 46
    ELSE IF c = "U+00FF" THEN 255
    ELSE IF c = "U+0663" THEN 1635
    ELSE 7877]

ord(ch) == ordTable[ch]

\* str.isdigit() of one character: the ASCII digits and the other characters
\* of Unicode's digit classes (here U+0663).
isdigit_char(ch) == ch \in Range(DecDigits) \cup {"U+0663"}

\* str.isdigit(): every character is a digit and there is at least one.
isdigit(s) == Len(s) > 0 /\ \A i \in 1..Len(s) : isdigit_char(s[i])

\* bool(x) of a str or None.
truthy(x) == x # None /\ x # <<>>

\* x or y
or_else(x, y) == IF truthy(x) THEN x ELSE y

Min(a, b) == IF a < b THEN a ELSE b

\* s[:n]
clip(s, n) == SubSeq(s, 1, Min(Len(s), n))

\* ''.join(ch for ch in s[lo-1:hi] if ch in keep), by halves (the order of
\* the characters is kept; halving only bounds the depth of the evaluation).
RECURSIVE filter_range(_, _, _, _)
filter_range(s, keep, lo, hi) ==
    IF lo > hi THEN <<>>
    ELSE IF lo = hi THEN (IF s[lo] \in keep THEN <<s[lo]>> ELSE <<>>)
    ELSE LET mid == (lo + hi) \div 2
         IN filter_range(s, keep, lo, mid) \o filter_range(s, keep, mid + 1, hi)

\* ''.join(ch for ch in s if ch in keep)
filter_chars(s, keep) == filter_range(s, keep, 1, Len(s))

\* s.replace(' ', '')
remove_spaces(s) == filter_chars(s, Chars \ {" "})

\* ''.join(parts)
RECURSIVE join(_)
join(parts) == IF parts = <<>> THEN <<>> ELSE Head(parts) \o join(Tail(parts))

\* str(n) for n >= 0
RECURSIVE str_of(_)
str_of(n) == IF n < 10 THEN <<DecDigits[n + 1]>>
             ELSE str_of(n \div 10) \o <<DecDigits[(n % 10) + 1]>>

\* s.zfill(w) / the 0-padding of a format width, for a string without sign
RECURSIVE zfill(_, _)
zfill(s, w) == IF Len(s) >= w THEN s ELSE zfill(<<"0">> \o s, w)

\* format(n, 'X') for n >= 0
RECURSIVE hex_of(_)
hex_of(n) == IF n < 16 THEN <<HexDigits[n + 1]>>
             ELSE hex_of(n \div 16) \o <<HexDigits[(n % 16) + 1]>>

\* a ^ b on naturals of any size (Python's integers are unbounded), four
\* bits at a time; xor_nibble is ^ on two numbers below 16, bit by bit.
xor_nibble(a, b) ==
    ((a + b) % 2)
    + 2 * (((a \div 2) + (b \div 2)) % 2)
    + 4 * (((a \div 4) + (b \div 4)) % 2)
    + 8 * (((a \div 8) + (b \div 8)) % 2)

RECURSIVE bit_xor(_, _)
bit_xor(a, b) == IF a = 0 THEN b
                 ELSE IF b = 0 THEN a
                 ELSE xor_nibble(a % 16, b % 16) + 16 * bit_xor(a \div 16, b \div 16)

----------------------------------------------------------------------------
(* tlv, crc16_ccitt_false, normalize_amount                                *)

\* tlv with the length cut to its last two digits.
tlv_two_digit_length(tlv_id, value) ==
    tlv_id \o zfill(str_of(Len(value) % 100), 2) \o value

\* tlv(tlv_id, value): the tag, str(len(value)).zfill(2), the value.
tlv(tlv_id, value) == tlv_id \o zfill(str_of(Len(value)), 2) \o value

\* One pass of the inner loop: if crc & 0x8000 (bit 15 is set) the shift and
\* the XOR with the polynomial 0x1021 = 4129, else the shift alone; then
\* crc &= 0xFFFF, which keeps the value modulo 2^16.  (Functions, so that TLC
\* evaluates the register before it goes on.)
crc_step[crc \in Nat] ==
    (IF (crc \div 32768) % 2 = 1 THEN bit_xor(crc * 2, 4129) ELSE crc * 2) % 65536

\* The inner loop, for _ in range(steps).
crc_shift[crc \in Nat, steps \in Nat] ==
    IF steps = 0 THEN crc ELSE crc_shift[crc_step[crc], steps - 1]

\* The outer loop over the characters of s, in order, from register value
\* crc0: crc ^= ord(ch) << 8, then the 8 steps, for each character.  The
\* range lo..hi is cut in halves, the left half first, which takes the
\* characters one by one from left to right as the loop does.
crc_loop(crc0, s) ==
    LET loop[crc \in Nat, lo \in Nat, hi \in Nat] ==
            IF lo > hi THEN crc
            ELSE IF lo = hi THEN crc_shift[bit_xor(crc, ord(s[lo]) * 256), 8]
            ELSE loop[loop[crc, lo, (lo + hi) \div 2], ((lo + hi) \div 2) + 1, hi]
    IN loop[crc0, 1, Len(s)]

\* CRC-16/XMODEM: the register starts at 0 instead of 0xFFFF.
crc16_xmodem(s) == zfill(hex_of(crc_loop(0, s)), 4)

\* crc = 0xFFFF, the loop, and f'{crc:04X}'.
crc16_ccitt_false(s) == zfill(hex_of(crc_loop(65535, s)), 4)

\* s.lstrip('0'): s from its first character that is not '0'.
lstrip_zeros(s) ==
    IF \A i \in 1..Len(s) : s[i] = "0" THEN <<>>
    ELSE LET first == CHOOSE k \in 1..Len(s) :
                          s[k] # "0" /\ \A j \in 1..(k - 1) : s[j] = "0"
         IN SubSeq(s, first, Len(s))

\* s.split('.'): the pieces between the dots, one more than there are dots.
split_dot(s) ==
    LET dots == {i \in 1..Len(s) : s[i] = "."}
        n == Cardinality(dots)
        pos(k) == IF k = 0 THEN 0
                  ELSE IF k = n + 1 THEN Len(s) + 1
                  ELSE CHOOSE i \in dots : Cardinality({j \in dots : j <= i}) = k
    IN [k \in 1..(n + 1) |-> SubSeq(s, pos(k - 1) + 1, pos(k) - 1)]

\* The normalizer taking one leading zero away instead of all of them.
normalize_amount_strips_one_zero(raw) ==
    IF ~truthy(raw) THEN <<>>
    ELSE LET cleaned == filter_chars(raw, {c \in Chars : isdigit_char(c) \/ c = "."})
             parts == split_dot(cleaned)
         IN IF cleaned = <<>> THEN <<>>
            ELSE IF Len(parts) > 2 THEN <<>>
            ELSE IF Len(parts) = 2 /\ Len(parts[2]) > 2 THEN <<>>
            ELSE or_else(IF cleaned[1] = "0" THEN Tail(cleaned) ELSE cleaned, <<"0">>)

\* The normalizer letting three characters follow the dot.
normalize_amount_three_decimals(raw) ==
    IF ~truthy(raw) THEN <<>>
    ELSE LET cleaned == filter_chars(raw, {c \in Chars : isdigit_char(c) \/ c = "."})
             parts == split_dot(cleaned)
         IN IF cleaned = <<>> THEN <<>>
            ELSE IF Len(parts) > 2 THEN <<>>
            ELSE IF Len(parts) = 2 /\ Len(parts[2]) > 3 THEN <<>>
            ELSE or_else(lstrip_zeros(cleaned), <<"0">>)

\* normalize_amount(raw): '' stands for "no amount".
normalize_amount(raw) ==
    IF ~truthy(raw) THEN <<>>
    ELSE LET cleaned == filter_chars(raw, {c \in Chars : isdigit_char(c) \/ c = "."})
             parts == split_dot(cleaned)
         IN IF cleaned = <<>> THEN <<>>
            ELSE IF Len(parts) > 2 THEN <<>>
            ELSE IF Len(parts) = 2 /\ Len(parts[2]) > 2 THEN <<>>
            ELSE or_else(lstrip_zeros(cleaned), <<"0">>)

----------------------------------------------------------------------------
(* build_vietqr_payload                                                    *)

S_A000000727 == <<"A", "0", "0", "0", "0", "0", "0", "7", "2", "7">>
S_QRIBFTTA == <<"Q", "R", "I", "B", "F", "T", "T", "A">>
S_HANOI == <<"H", "A", "N", "O", "I">>
S_NA == <<"N", "A">>
S_6304 == <<"6", "3", "0", "4">>

ERR_MISSING == "Missing bank BIN or account number"
ERR_BANK == "Invalid bank BIN (should be 6 or 8 digits)"
ERR_ACCOUNT == "Invalid account number (digits only, min 6)"

\* What a call gives back: a returned str, or a raised ValueError.
Returned(payload) == [kind |-> "returned", payload |-> payload, message |-> ""]
Raised(message) == [kind |-> "raised", payload |-> <<>>, message |-> message]
NotCalled == [kind |-> "none", payload |-> <<>>, message |-> ""]

\* clean_bank, clean_account: (x or '').replace(' ', '')
clean_bank_of(bank_bin) == remove_spaces(or_else(bank_bin, <<>>))
clean_account_of(account_no) == remove_spaces(or_else(account_no, <<>>))

\* The checks without the one on the length of the bank BIN.
validation_error_any_bank_length(clean_bank, clean_account) ==
    IF clean_bank = <<>> \/ clean_account = <<>> THEN ERR_MISSING
    ELSE IF ~isdigit(clean_bank) THEN ERR_BANK
    ELSE IF ~isdigit(clean_account) \/ Len(clean_account) < 6 THEN ERR_ACCOUNT
    ELSE ""

\* The three checks that raise ValueError; "" when none does.
validation_error(clean_bank, clean_account) ==
    IF clean_bank = <<>> \/ clean_account = <<>> THEN ERR_MISSING
    ELSE IF ~isdigit(clean_bank) \/ Len(clean_bank) \notin {6, 8} THEN ERR_BANK
    ELSE IF ~isdigit(clean_account) \/ Len(clean_account) < 6 THEN ERR_ACCOUNT
    ELSE ""

merchant_name_of(account_name) == clip(or_else(account_name, S_NA), 25)

\* The purpose cut one character later.
purpose_str_cut_at_100(purpose) == clip(or_else(purpose, <<>>), 100)

purpose_str_of(purpose) == clip(or_else(purpose, <<>>), 99)

beneficiary_of(clean_bank, clean_account) ==
    join(<<tlv(<<"0", "0">>, clean_bank), tlv(<<"0", "1">>, clean_account)>>)

\* The merchant info with the service code before the beneficiary.
merchant_info_service_code_first(beneficiary) ==
    join(<<tlv(<<"0", "0">>, S_A000000727),
           tlv(<<"0", "2">>, S_QRIBFTTA),
           tlv(<<"0", "1">>, beneficiary)>>)

merchant_info_of(beneficiary) ==
    join(<<tlv(<<"0", "0">>, S_A000000727),
           tlv(<<"0", "1">>, beneficiary),
           tlv(<<"0", "2">>, S_QRIBFTTA)>>)

\* The list with the initiation method '12' whether or not there is an amount.
payload_parts_always_dynamic(merchant_info, amount_str, merchant_name, purpose_str) ==
    <<tlv(<<"0", "0">>, <<"0", "1">>),
      tlv(<<"0", "1">>, <<"1", "2">>),
      tlv(<<"3", "8">>, merchant_info),
      tlv(<<"5", "2">>, <<"0", "0", "0", "0">>),
      tlv(<<"5", "3">>, <<"7", "0", "4">>),
      IF truthy(amount_str) THEN tlv(<<"5", "4">>, amount_str) ELSE <<>>,
      tlv(<<"5", "8">>, <<"V", "N">>),
      tlv(<<"5", "9">>, merchant_name),
      tlv(<<"6", "0">>, S_HANOI),
      IF truthy(purpose_str)
      THEN tlv(<<"6", "2">>, tlv(<<"0", "8">>, purpose_str))
      ELSE <<>> >>

\* payload_parts: the ten entries of the list, '' for a field left out.
payload_parts(merchant_info, amount_str, merchant_name, purpose_str) ==
    <<tlv(<<"0", "0">>, <<"0", "1">>),
      tlv(<<"0", "1">>, IF truthy(amount_str) THEN <<"1", "2">> ELSE <<"1", "1">>),
      tlv(<<"3", "8">>, merchant_info),
      tlv(<<"5", "2">>, <<"0", "0", "0", "0">>),
      tlv(<<"5", "3">>, <<"7", "0", "4">>),
      IF truthy(amount_str) THEN tlv(<<"5", "4">>, amount_str) ELSE <<>>,
      tlv(<<"5", "8">>, <<"V", "N">>),
      tlv(<<"5", "9">>, merchant_name),
      tlv(<<"6", "0">>, S_HANOI),
      IF truthy(purpose_str)
      THEN tlv(<<"6", "2">>, tlv(<<"0", "8">>, purpose_str))
      ELSE <<>> >>

\* The CRC taken over the parts alone, without the '6304' that precedes it.
seal_payload_crc_without_prefix(parts) ==
    LET payload == join(parts)
    IN payload \o <<"6", "3">> \o <<"0", "4">> \o crc16_ccitt_false(payload)

\* The last three lines: the parts joined, the CRC over them and '6304',
\* and the trailer.
seal_payload(parts) ==
    LET payload == join(parts)
        crc == crc16_ccitt_false(payload \o S_6304)
    IN payload \o <<"6", "3">> \o <<"0", "4">> \o crc

\* Every call of tlv that builds the payload, as (container, tag, value):
\* the container is "" for a top-level field and else the path of the field
\* whose value the encoded field becomes part of.
tlv_calls(bank_bin, account_no, account_name, amount, purpose) ==
    LET clean_bank == clean_bank_of(bank_bin)
        clean_account == clean_account_of(account_no)
        amount_str == normalize_amount(amount)
        merchant_name == merchant_name_of(account_name)
        purpose_str == purpose_str_of(purpose)
        beneficiary == beneficiary_of(clean_bank, clean_account)
        merchant_info == merchant_info_of(beneficiary)
        F(container, tag, value) == [container |-> container, tag |-> tag, value |-> value]
    IN <<F("38/01", <<"0", "0">>, clean_bank),
         F("38/01", <<"0", "1">>, clean_account),
         F("38", <<"0", "0">>, S_A000000727),
         F("38", <<"0", "1">>, beneficiary),
         F("38", <<"0", "2">>, S_QRIBFTTA),
         F("", <<"0", "0">>, <<"0", "1">>),
         F("", <<"0", "1">>, IF truthy(amount_str) THEN <<"1", "2">> ELSE <<"1", "1">>),
         F("", <<"3", "8">>, merchant_info),
         F("", <<"5", "2">>, <<"0", "0", "0", "0">>),
         F("", <<"5", "3">>, <<"7", "0", "4">>)>>
       \o (IF truthy(amount_str) THEN <<F("", <<"5", "4">>, amount_str)>> ELSE <<>>)
       \o <<F("", <<"5", "8">>, <<"V", "N">>),
            F("", <<"5", "9">>, merchant_name),
            F("", <<"6", "0">>, S_HANOI)>>
       \o (IF truthy(purpose_str)
           THEN <<F("62", <<"0", "8">>, purpose_str),
                  F("", <<"6", "2">>, tlv(<<"0", "8">>, purpose_str))>>
           ELSE <<>>)

build_vietqr_payload(bank_bin, account_no, account_name, amount, purpose) ==
    LET clean_bank == clean_bank_of(bank_bin)
        clean_account == clean_account_of(account_no)
        error == validation_error(clean_bank, clean_account)
    IN IF error # "" THEN Raised(error)
       ELSE Returned(seal_payload(payload_parts(
                merchant_info_of(beneficiary_of(clean_bank, clean_account)),
                normalize_amount(amount),
                merchant_name_of(account_name),
                purpose_str_of(purpose))))

----------------------------------------------------------------------------
(* The inputs the checks draw from                                         *)

\* A character repeated n times.
Rep(c, n) == [i \in 1..n |-> c]

\* Lengths around the limits of the encoder: a name is clipped to 25 and a
\* purpose to 99 characters; a length marker has room for 99.
LongAccountLen == 56
LongAmountLen == 100
MaxCrcLen == 3

S_970436 == <<"9", "7", "0", "4", "3", "6">>
S_0123456789 == <<"0", "1", "2", "3", "4", "5", "6", "7", "8", "9">>
S_NGUYEN_VAN_A == <<"N", "G", "U", "Y", "E", "N", " ", "V", "A", "N", " ", "A">>
S_100000 == <<"1", "0", "0", "0", "0", "0">>
S_an_trua == <<"a", "n", " ", "t", "r", "u", "a">>
S_123456789 == <<"1", "2", "3", "4", "5", "6", "7", "8", "9">>

BankBins ==
    { None, <<>>,
      S_970436,
      <<"9", "7", "0", "4", "1">>,
      <<"9", "7", "0", "4", " ", "3", "6">>,
      <<"9", "7", "0", "4", "3", "6", "1">>,
      <<"9", "7", "0", "4", "3", "6", "1", "2">>,
      <<"9", "7", "O", "4", "3", "6">>,
      <<"9", "7", "0", "4", "U+0663", "6">> }

AccountNos ==
    { None, <<>>,
      S_0123456789,
      <<"1", "2", "3", "4", "5">>,
      <<"1", "2", "3", " ", "4", "5", "6">>,
      <<"1", "2", "3", "4", "5", "A">>,
      Rep("7", LongAccountLen) }

AccountNames ==
    { <<>>,
      S_NGUYEN_VAN_A,
      <<"N", "G", "U", "Y", "U+1EC5", "N">>,
      Rep("B", 26) }

Amounts ==
    { <<>>,
      S_100000,
      <<"1", ".", "2", ".", "3">>,
      <<"1", "0", ".", "5", "5", "5">>,
      <<"a", "b", "c">>,
      <<"0", ".", "5">>,
      <<".">>,
      Rep("9", LongAmountLen) }

Purposes ==
    { <<>>,
      S_an_trua,
      Rep("x", 95),
      Rep("x", 96),
      Rep("x", 100) }

\* The requests: every bank identifier and account number with the usual
\* name and purpose, and every name, amount and purpose with the usual bank
\* identifier and account number.
Requests ==
    {r \in [bank_bin : BankBins, account_no : AccountNos, account_name : AccountNames,
            amount : Amounts, purpose : Purposes] :
        \/ r.bank_bin = S_970436 /\ r.account_no = S_0123456789
        \/ /\ r.account_name = S_NGUYEN_VAN_A
           /\ r.purpose = S_an_trua
           /\ r.amount \in {<<>>, S_100000}}

\* All strings of at most n characters over an alphabet.
RECURSIVE StringsUpTo(_, _)
StringsUpTo(alphabet, n) ==
    IF n = 0 THEN {<<>>}
    ELSE LET shorter == StringsUpTo(alphabet, n - 1)
         IN shorter \cup {<<c>> \o s : c \in alphabet, s \in {t \in shorter : Len(t) = n - 1}}

CrcAlphabet == {"1", "A", " ", "U+00FF", "U+1EC5"}
CrcInputs == StringsUpTo(CrcAlphabet, MaxCrcLen) \cup {S_123456789}

\* The strings normalize_amount is tried on: zeros, another digit, dots, a
\* character that is no digit, and a digit outside ASCII.
MaxAmountLen == 4
AmountAlphabet == {"0", "1", ".", "a", "U+0663"}
AmountInputs == StringsUpTo(AmountAlphabet, MaxAmountLen)

----------------------------------------------------------------------------
(* The state when a part of the program is not under check                 *)

NoRequest == [bank_bin |-> None, account_no |-> None, account_name |-> None,
              amount |-> None, purpose |-> None]
NoPending == [present |-> FALSE]

\* Optional[int]: None, or an int.
NoInt == [is_none |-> TRUE]
SomeInt(n) == [is_none |-> FALSE, value |-> n]

\* The users who talk to the bot (update.effective_user.id).
Users == {1, 2}

\* context.user_data of a user who has not talked to the bot: no key is
\* set. A key that is absent reads as Absent, an absent dict as NoPending.
Absent == "absent"
EmptyUserData == [qr_pending |-> NoPending]
EmptyDialog ==
    [profile_state |-> Absent, pending_account |-> NoPending, menu_state |-> Absent,
     bill_total |-> NoInt, bill_note |-> None, bill_pending |-> NoPending]
DialogIdle == dialog = [user_id \in Users |-> EmptyDialog]
NoImage == [width |-> 0, height |-> 0, painted |-> <<>>]
S_bg_png == <<"b", "g", ".", "p", "n", "g">>
NotBuilt == [built |-> FALSE]

EncoderIdle == request = NoRequest /\ result = NotCalled
CrcIdle == data = None /\ crc_out = None
BotIdle ==
    /\ accounts = <<>>
    /\ settings = [DEFAULT_BANK_BIN |-> <<>>, DEFAULT_ACCOUNT_NO |-> <<>>, DEBUG |-> FALSE,
                  QR_PANEL_X |-> <<>>, QR_PANEL_Y |-> <<>>, QR_SIZE |-> <<>>,
                  BG_IMAGE_PATH |-> S_bg_png]
    /\ user_data = [user_id \in Users |-> EmptyUserData]
    /\ replies = <<>>
    /\ now = 0
    /\ calls = 0
AmountIdle == given = None /\ normalized = None /\ renormalized = None
NoCall == [op |-> "none"]
DbIdle == group_chats = {} /\ account_call = NoCall
AccessIdle == admin_users = {} /\ allowed_users = {} /\ access_requests = {}
NotEncrypted == [called |-> FALSE]
IV0 == "iv0"
CryptoIdle == plain = None /\ fernet_iv = IV0 /\ crypt = NotEncrypted
ImageIdle ==
    /\ template = NoImage
    /\ line_sizes = <<>>
    /\ image = NotBuilt
    /\ builds = 0

----------------------------------------------------------------------------
(* SpecEncoder: one call of build_vietqr_payload on a request              *)

InitEncoder ==
    /\ request \in Requests /\ result = NotCalled
    /\ CrcIdle /\ BotIdle /\ AmountIdle /\ ImageIdle /\ DbIdle /\ AccessIdle /\ CryptoIdle /\ outbox = <<>> /\ DialogIdle /\ event = NoCall

CallBuild ==
    /\ result = NotCalled
    /\ result' = build_vietqr_payload(request.bank_bin, request.account_no,
                    request.account_name, request.amount, request.purpose)
    /\ UNCHANGED <<request, crcVars, botVars, amountVars, imageVars, dbVars,
                   accessVars, cryptoVars, outbox, dialog, event>>

NextEncoder == CallBuild

SpecEncoder == InitEncoder /\ [][NextEncoder]_vars

----------------------------------------------------------------------------
(* SpecCrc: one call of crc16_ccitt_false on a string                      *)

InitCrc ==
    /\ data \in CrcInputs /\ crc_out = None
    /\ EncoderIdle /\ BotIdle /\ AmountIdle /\ ImageIdle /\ DbIdle /\ AccessIdle /\ CryptoIdle /\ outbox = <<>> /\ DialogIdle /\ event = NoCall

CallCrc ==
    /\ crc_out = None
    /\ crc_out' = crc16_ccitt_false(data)
    /\ UNCHANGED <<data, encoderVars, botVars, amountVars, imageVars, dbVars,
                   accessVars, cryptoVars, outbox, dialog, event>>

NextCrc == CallCrc

SpecCrc == InitCrc /\ [][NextCrc]_vars

----------------------------------------------------------------------------
(* SpecAmount: normalize_amount on a string, and again on what it returned *)

InitAmount ==
    /\ given \in AmountInputs /\ normalized = None /\ renormalized = None
    /\ EncoderIdle /\ CrcIdle /\ BotIdle /\ ImageIdle /\ DbIdle /\ AccessIdle /\ CryptoIdle /\ outbox = <<>> /\ DialogIdle /\ event = NoCall

CallNormalize ==
    /\ normalized = None
    /\ normalized' = normalize_amount(given)
    /\ UNCHANGED <<given, renormalized, encoderVars, crcVars, botVars, imageVars, dbVars,
                   accessVars, cryptoVars, outbox, dialog, event>>

CallNormalizeAgain ==
    /\ normalized # None
    /\ renormalized = None
    /\ renormalized' = normalize_amount(normalized)
    /\ UNCHANGED <<given, normalized, encoderVars, crcVars, botVars, imageVars, dbVars,
                   accessVars, cryptoVars, outbox, dialog, event>>

NextAmount == CallNormalize \/ CallNormalizeAgain

SpecAmount == InitAmount /\ [][NextAmount]_vars

----------------------------------------------------------------------------
(* create_qr_request                                                       *)

\* get_accounts: the rows of the user, ORDER BY is_default DESC, id ASC
\* (`accounts` is in id order).
get_accounts(user_id) ==
    LET IsDefault(row) == row.user_id = user_id /\ row.is_default
        IsOther(row) == row.user_id = user_id /\ ~row.is_default
    IN SelectSeq(accounts, IsDefault) \o SelectSeq(accounts, IsOther)

\* get_default_account: None without accounts, else the first account
\* marked default, else the first account.
NoAccount == [is_none |-> TRUE]

get_default_account(user_id) ==
    LET rows == get_accounts(user_id)
    IN IF rows = <<>> THEN NoAccount
       ELSE IF \E i \in 1..Len(rows) : rows[i].is_default
       THEN rows[CHOOSE i \in 1..Len(rows) :
                   /\ rows[i].is_default
                   /\ \A j \in 1..(i - 1) : ~rows[j].is_default]
       ELSE rows[1]

\* update.effective_user.id of the user who talks to the bot.
BotUser == 1

\* The messages of create_qr_request.
MSG_NO_ACCOUNT == [text |-> "Chua co tai khoan nao. Goi /start hoac /addbank de them.",
                   detail |-> "", payload |-> <<>>, buttons |-> <<>>]
MSG_NO_NAME == [text |-> "Chua co thong tin ten tai khoan/ten ngan hang. Goi /start de nhap.",
                detail |-> "", payload |-> <<>>, buttons |-> <<>>]
MSG_NO_DEFAULT == [text |-> "Chua co thong tin mac dinh hoac chua truyen vao lenh.",
                   detail |-> "", payload |-> <<>>, buttons |-> <<>>]
MsgError(message) == [text |-> "Loi: ", detail |-> message, payload |-> <<>>,
                      buttons |-> <<>>]
MsgPayload(payload) == [text |-> "VietQR payload:", detail |-> "", payload |-> payload,
                        buttons |-> <<>>]
MSG_ASK_DESTINATION == [text |-> "Ban muon gui QR o dau?", detail |-> "",
                        payload |-> <<>>, buttons |-> <<"qr:group", "qr:private">>]

is_debug_enabled == settings.DEBUG

\* The reply with the message, and the pending QR dropped.
on_value_error_drops_pending(message) ==
    /\ replies' = <<MsgError(message)>>
    /\ user_data' = [user_data EXCEPT ![BotUser].qr_pending = NoPending]

\* except ValueError: the reply with the message, and the return.
on_value_error(message) ==
    /\ replies' = <<MsgError(message)>>
    /\ UNCHANGED user_data

\* The handler, from its first line to its last: the early returns, the
\* call of build_vietqr_payload, the reply to a ValueError, and else the
\* stored qr_pending and the question where to send the QR.  request and
\* result record the call of build_vietqr_payload, if the handler made one.
create_qr_request(user_id, amount, purpose, bank_bin_arg, account_no_arg) ==
    LET default_account == get_default_account(user_id)
    IN IF default_account = NoAccount
       THEN /\ replies' = <<MSG_NO_ACCOUNT>>
            /\ request' = NoRequest
            /\ result' = NotCalled
            /\ UNCHANGED user_data
       ELSE IF ~truthy(default_account.account_name) \/ ~truthy(default_account.bank_name)
       THEN /\ replies' = <<MSG_NO_NAME>>
            /\ request' = NoRequest
            /\ result' = NotCalled
            /\ UNCHANGED user_data
       ELSE LET bank_bin == or_else(or_else(bank_bin_arg, default_account.bank_bin),
                                    settings.DEFAULT_BANK_BIN)
                account_no == or_else(or_else(account_no_arg, default_account.account_no),
                                      settings.DEFAULT_ACCOUNT_NO)
                built == build_vietqr_payload(bank_bin, account_no,
                            default_account.account_name, amount, purpose)
            IN IF ~truthy(bank_bin) \/ ~truthy(account_no)
               THEN /\ replies' = <<MSG_NO_DEFAULT>>
                    /\ request' = NoRequest
                    /\ result' = NotCalled
                    /\ UNCHANGED user_data
               ELSE /\ request' = [bank_bin |-> bank_bin, account_no |-> account_no,
                                   account_name |-> default_account.account_name,
                                   amount |-> amount, purpose |-> purpose]
                    /\ result' = built
                    /\ IF built.kind = "raised"
                       THEN on_value_error(built.message)
                       ELSE /\ user_data' = [user_data EXCEPT ![user_id].qr_pending =
                                   [present |-> TRUE,
                                    payload |-> built.payload,
                                    account_no |-> account_no,
                                    account_name |-> default_account.account_name,
                                    bank_name |-> default_account.bank_name,
                                    created_at |-> now]]
                            /\ replies' = (IF is_debug_enabled
                                           THEN <<MsgPayload(built.payload)>>
                                           ELSE <<>>) \o <<MSG_ASK_DESTINATION>>

----------------------------------------------------------------------------
(* SpecBot: a user's calls of create_qr_request, as qr_handler and         *)
(* profile_handler make them, while time passes                            *)

MaxCalls == 2
MaxTime == 1

S_Vietcombank == <<"V", "i", "e", "t", "c", "o", "m", "b", "a", "n", "k">>

\* The rows the account conversation stores (profile_handler, save_account),
\* and a row whose encrypted bank BIN no longer decrypts (decrypt_value
\* gives '' on InvalidToken) or whose name does not.
GoodRow == [id |-> 1, user_id |-> BotUser,
            bank_name |-> S_Vietcombank, bank_bin |-> S_970436,
            account_no |-> S_0123456789, account_name |-> S_NGUYEN_VAN_A,
            is_default |-> TRUE]
AccountTables ==
    { <<>>,
      <<GoodRow>>,
      <<[GoodRow EXCEPT !.bank_bin = <<>>]>>,
      <<[GoodRow EXCEPT !.account_name = <<>>]>>,
      <<[GoodRow EXCEPT !.is_default = FALSE],
        [GoodRow EXCEPT !.id = 2, !.account_no = <<"9", "8", "7", "6", "5", "4">>]>> }

\* The arguments qr_handler passes: bank BIN and account number both or
\* neither, both all digits when given.
BotBankArgs ==
    { <<None, None>>,
      <<<<"9", "7", "0", "4", "1">>, S_0123456789>>,
      <<S_970436, <<"1", "2", "3", "4", "5">>>> }
BotAmounts == {S_100000, <<"5", "0", "0", "0", "0">>}
BotPurposes == {S_an_trua}

InitBot ==
    /\ accounts \in AccountTables
    /\ settings \in [DEFAULT_BANK_BIN : {<<>>}, DEFAULT_ACCOUNT_NO : {<<>>},
                     DEBUG : BOOLEAN,
                     QR_PANEL_X : {<<>>}, QR_PANEL_Y : {<<>>}, QR_SIZE : {<<>>},
                     BG_IMAGE_PATH : {S_bg_png}]
    /\ user_data = [user_id \in Users |-> EmptyUserData]
    /\ replies = <<>>
    /\ now = 0
    /\ calls = 0
    /\ EncoderIdle
    /\ CrcIdle
    /\ AmountIdle
    /\ ImageIdle
    /\ DbIdle /\ AccessIdle /\ CryptoIdle /\ outbox = <<>> /\ DialogIdle /\ event = NoCall

CreateQrRequest ==
    /\ calls < MaxCalls
    /\ \E args \in BotBankArgs, amount \in BotAmounts, purpose \in BotPurposes :
          create_qr_request(BotUser, amount, purpose, args[1], args[2])
    /\ calls' = calls + 1
    /\ UNCHANGED <<accounts, settings, now, crcVars, amountVars, imageVars, dbVars,
                   accessVars, cryptoVars, outbox, dialog, event>>

Tick ==
    /\ now < MaxTime
    /\ now' = now + 1
    /\ UNCHANGED <<accounts, settings, user_data, replies, calls, encoderVars, crcVars,
                   amountVars, imageVars, dbVars,
                   accessVars, cryptoVars, outbox, dialog, event>>

NextBot == CreateQrRequest \/ Tick

SpecBot == InitBot /\ [][NextBot]_vars

----------------------------------------------------------------------------
(* The integers of the settings                                            *)

Max(a, b) == IF a >= b THEN a ELSE b

\* s.strip(): s without the spaces at its two ends.
strip(s) ==
    LET inner == {i \in 1..Len(s) : s[i] # " "}
    IN IF inner = {} THEN <<>>
       ELSE SubSeq(s, CHOOSE i \in inner : \A j \in inner : i <= j,
                      CHOOSE i \in inner : \A j \in inner : i >= j)

\* The value int() gives a digit: the position among 0-9, and 3 for the
\* Arabic-Indic digit three.
digit_value(ch) ==
    IF ch \in Range(DecDigits) THEN IndexOf(DecDigits, ch) - 1
    ELSE IF ch = "U+0663" THEN 3
    ELSE -1

\* The number the digits of a string write, most significant first.
RECURSIVE digits_value(_)
digits_value(s) ==
    IF s = <<>> THEN 0
    ELSE 10 * digits_value(SubSeq(s, 1, Len(s) - 1)) + digit_value(s[Len(s)])

\* int(s): spaces around, one sign, then digits and nothing else; a
\* ValueError (ok = FALSE) for everything else.
int_of(s) ==
    LET t == strip(s)
        signed == t # <<>> /\ t[1] \in {"+", "-"}
        body == IF signed THEN Tail(t) ELSE t
        ok == body # <<>> /\ \A i \in 1..Len(body) : digit_value(body[i]) >= 0
    IN [ok |-> ok,
        value |-> IF ~ok THEN 0
                  ELSE IF signed /\ t[1] = "-" THEN 0 - digits_value(body)
                  ELSE digits_value(body)]

\* parse_int(value, default)
parse_int(value, default) ==
    IF int_of(value).ok THEN int_of(value).value ELSE default

\* parse_optional_int(value)
parse_optional_int(value) ==
    IF value = None THEN NoInt
    ELSE IF strip(value) = <<>> THEN NoInt
    ELSE IF int_of(strip(value)).ok THEN SomeInt(int_of(strip(value)).value)
    ELSE NoInt

----------------------------------------------------------------------------
(* The image: frame detection, sizes, position                             *)

White == <<255, 255, 255>>
Black == <<0, 0, 0>>

\* pixels[x, y] of an RGB image: the colour painted at (x, y), white where
\* nothing is painted.
pixel(background, x, y) ==
    IF <<x, y>> \in DOMAIN background.painted THEN background.painted[<<x, y>>]
    ELSE White

NoBox == [found |-> FALSE]
Box(left, top, right, bottom) ==
    [found |-> TRUE, left |-> left, top |-> top, right |-> right, bottom |-> bottom]

\* The detector letting a box of no width or no height through.
detect_frame_bbox_allows_empty_box(background) ==
    LET width == background.width
        height == background.height
        start_x == 0
        end_x == (width * 65) \div 100
        start_y == (height * 25) \div 100
        end_y == height - 1
        threshold == 90
        dark == {p \in DOMAIN background.painted :
                    /\ p[1] \in start_x..end_x
                    /\ p[2] \in start_y..end_y
                    /\ pixel(background, p[1], p[2])[1] < threshold
                    /\ pixel(background, p[1], p[2])[2] < threshold
                    /\ pixel(background, p[1], p[2])[3] < threshold}
        lowest(S) == CHOOSE a \in S : \A b \in S : a <= b
        highest(S) == CHOOSE a \in S : \A b \in S : a >= b
        inset == 10
        min_x == lowest({p[1] : p \in dark}) + inset
        min_y == lowest({p[2] : p \in dark}) + inset
        max_x == highest({p[1] : p \in dark}) - inset
        max_y == highest({p[2] : p \in dark}) - inset
    IN IF dark = {} THEN NoBox
       ELSE IF max_x < min_x \/ max_y < min_y THEN NoBox
       ELSE Box(min_x, min_y, max_x, max_y)

\* The detector taking a pixel for dark when any one channel is below the
\* threshold.
detect_frame_bbox_dark_by_any_channel(background) ==
    LET width == background.width
        height == background.height
        start_x == 0
        end_x == (width * 65) \div 100
        start_y == (height * 25) \div 100
        end_y == height - 1
        threshold == 90
        dark == {p \in DOMAIN background.painted :
                    /\ p[1] \in start_x..end_x
                    /\ p[2] \in start_y..end_y
                    /\ \/ pixel(background, p[1], p[2])[1] < threshold
                       \/ pixel(background, p[1], p[2])[2] < threshold
                       \/ pixel(background, p[1], p[2])[3] < threshold}
        lowest(S) == CHOOSE a \in S : \A b \in S : a <= b
        highest(S) == CHOOSE a \in S : \A b \in S : a >= b
        inset == 10
        min_x == lowest({p[1] : p \in dark}) + inset
        min_y == lowest({p[2] : p \in dark}) + inset
        max_x == highest({p[1] : p \in dark}) - inset
        max_y == highest({p[2] : p \in dark}) - inset
    IN IF dark = {} THEN NoBox
       ELSE IF max_x <= min_x \/ max_y <= min_y THEN NoBox
       ELSE Box(min_x, min_y, max_x, max_y)

\* detect_frame_bbox(background): the two loops visit x in 0..end_x and y in
\* start_y..end_y and keep the least and greatest x and y of the dark pixels
\* (all three channels below the threshold); int(width * 0.65) and
\* int(height * 0.25) are (width * 65) \div 100 and (height * 25) \div 100
\* for every size up to 20000.  Only a painted pixel can be dark.
detect_frame_bbox(background) ==
    LET width == background.width
        height == background.height
        start_x == 0
        end_x == (width * 65) \div 100
        start_y == (height * 25) \div 100
        end_y == height - 1
        threshold == 90
        dark == {p \in DOMAIN background.painted :
                    /\ p[1] \in start_x..end_x
                    /\ p[2] \in start_y..end_y
                    /\ pixel(background, p[1], p[2])[1] < threshold
                    /\ pixel(background, p[1], p[2])[2] < threshold
                    /\ pixel(background, p[1], p[2])[3] < threshold}
        lowest(S) == CHOOSE a \in S : \A b \in S : a <= b
        highest(S) == CHOOSE a \in S : \A b \in S : a >= b
        inset == 10
        min_x == lowest({p[1] : p \in dark}) + inset
        min_y == lowest({p[2] : p \in dark}) + inset
        max_x == highest({p[1] : p \in dark}) - inset
        max_y == highest({p[2] : p \in dark}) - inset
    IN IF dark = {} THEN NoBox
       ELSE IF max_x <= min_x \/ max_y <= min_y THEN NoBox
       ELSE Box(min_x, min_y, max_x, max_y)

\* measure_text_block(lines, font, line_gap): the width of the widest line
\* and the heights added up, with line_gap between the lines; sizes are the
\* (width, height) the font gives each line, (0, 0) for an empty line.
measure_text_block(sizes, line_gap) ==
    LET widest == CHOOSE w \in {sizes[i][1] : i \in 1..Len(sizes)} \cup {0} :
                      \A i \in 1..Len(sizes) : sizes[i][1] <= w
        RECURSIVE total(_)
        total(i) == IF i > Len(sizes) THEN 0 ELSE sizes[i][2] + total(i + 1)
    IN [text_width |-> widest,
        text_height |-> total(1) + Max(0, Len(sizes) - 1) * line_gap]

\* resolve_qr_size with the floor of 120 on everything it returns.
resolve_qr_size_with_floor(background, sizes, frame_bbox) ==
    LET default_size == (Min(background.width, background.height) * 32) \div 100
        size_setting == strip(settings.QR_SIZE)
        frame_w == Max(0, frame_bbox.right - frame_bbox.left)
        frame_h == Max(0, frame_bbox.bottom - frame_bbox.top)
        text_height == measure_text_block(sizes, 4).text_height
        available_w == Max(0, frame_w - 16 * 2 - 12 * 2)
        available_h == Max(0, frame_h - (8 + text_height + 16 * 2) - 12 * 2)
        target_size == (Min(available_w, available_h) * 81) \div 100
    IN Max(120,
           IF truthy(size_setting) THEN parse_int(size_setting, default_size)
           ELSE IF ~frame_bbox.found THEN default_size
           ELSE IF target_size <= 0 THEN default_size
           ELSE target_size)

\* resolve_qr_size looking at the frame box before the configured size.
resolve_qr_size_frame_before_override(background, sizes, frame_bbox) ==
    LET default_size == (Min(background.width, background.height) * 32) \div 100
        size_setting == strip(settings.QR_SIZE)
        frame_w == Max(0, frame_bbox.right - frame_bbox.left)
        frame_h == Max(0, frame_bbox.bottom - frame_bbox.top)
        padding == 16
        gap == 8
        line_gap == 4
        text_height == measure_text_block(sizes, line_gap).text_height
        frame_margin == 12
        available_w == Max(0, frame_w - padding * 2 - frame_margin * 2)
        available_h == Max(0, frame_h - (gap + text_height + padding * 2) - frame_margin * 2)
        target_size == (Min(available_w, available_h) * 81) \div 100
    IN IF frame_bbox.found /\ target_size > 0 THEN target_size
       ELSE IF truthy(size_setting) THEN parse_int(size_setting, default_size)
       ELSE default_size

\* resolve_qr_size(background, bank_name, account_name, account_no,
\* frame_bbox), the three names by the sizes of their lines; int(n * 0.32)
\* and int(n * 0.81) are (n * 32) \div 100 and (n * 81) \div 100 for every
\* n in 0..20000.
resolve_qr_size(background, sizes, frame_bbox) ==
    LET default_size == (Min(background.width, background.height) * 32) \div 100
        size_setting == strip(settings.QR_SIZE)
        frame_w == Max(0, frame_bbox.right - frame_bbox.left)
        frame_h == Max(0, frame_bbox.bottom - frame_bbox.top)
        padding == 16
        gap == 8
        line_gap == 4
        text_height == measure_text_block(sizes, line_gap).text_height
        frame_margin == 12
        available_w == Max(0, frame_w - padding * 2 - frame_margin * 2)
        available_h == Max(0, frame_h - (gap + text_height + padding * 2) - frame_margin * 2)
        target_size == (Min(available_w, available_h) * 81) \div 100
    IN IF truthy(size_setting) THEN parse_int(size_setting, default_size)
       ELSE IF ~frame_bbox.found THEN default_size
       ELSE IF target_size <= 0 THEN default_size
       ELSE target_size

\* The resize without the floor.
resize_qr_image_without_floor(target_size) ==
    [width |-> target_size, height |-> target_size]

\* resize_qr_image(qr_img, target_size): the size of the image it returns.
resize_qr_image(target_size) ==
    [width |-> Max(120, target_size), height |-> Max(120, target_size)]

\* The lines build_qr_panel draws, from line idx on with text_y as it then
\* is: where each line that is not empty (its size is not (0, 0)) goes.
RECURSIVE drawn_lines(_, _, _, _)
drawn_lines(sizes, idx, text_y, line_gap) ==
    IF idx > Len(sizes) THEN <<>>
    ELSE IF sizes[idx] = <<0, 0>> THEN drawn_lines(sizes, idx + 1, text_y, line_gap)
    ELSE <<[text_y |-> text_y, line_height |-> sizes[idx][2]]>>
         \o drawn_lines(sizes, idx + 1, text_y + sizes[idx][2] + line_gap, line_gap)

\* The panel without the gap between the code and the lines.
build_qr_panel_without_gap(qr_img, sizes) ==
    LET padding == 16
        gap == 8
        line_gap == 4
        text == measure_text_block(sizes, line_gap)
    IN [width |-> Max(qr_img.width, text.text_width) + padding * 2,
        height |-> qr_img.height + text.text_height + padding * 2,
        qr_y |-> padding,
        lines |-> drawn_lines(sizes, 1, padding + qr_img.height + gap, line_gap)]

\* build_qr_panel: the size of the panel around the code and the lines,
\* where the code is pasted, and where the lines are drawn.
build_qr_panel(qr_img, sizes) ==
    LET padding == 16
        gap == 8
        line_gap == 4
        text == measure_text_block(sizes, line_gap)
    IN [width |-> Max(qr_img.width, text.text_width) + padding * 2,
        height |-> qr_img.height + gap + text.text_height + padding * 2,
        qr_y |-> padding,
        lines |-> drawn_lines(sizes, 1, padding + qr_img.height + gap, line_gap)]

\* The composition with the fallback y a margin from the top.
compose_qr_on_background_top_margin(qr_panel, background, frame_bbox) ==
    LET bg_w == background.width
        bg_h == background.height
        panel_w == qr_panel.width
        panel_h == qr_panel.height
        margin == 24
        x0 == parse_optional_int(settings.QR_PANEL_X)
        y0 == parse_optional_int(settings.QR_PANEL_Y)
        available_w == Max(0, frame_bbox.right - frame_bbox.left)
        available_h == Max(0, frame_bbox.bottom - frame_bbox.top)
        x1 == IF ~(x0.is_none \/ y0.is_none) THEN x0.value
              ELSE IF frame_bbox.found
                   THEN (IF x0.is_none
                         THEN frame_bbox.left + Max(0, (available_w - panel_w) \div 2)
                         ELSE x0.value) - 44
              ELSE IF x0.is_none THEN margin
              ELSE x0.value
        y1 == IF ~(x0.is_none \/ y0.is_none) THEN y0.value
              ELSE IF frame_bbox.found
                   THEN (IF y0.is_none
                         THEN frame_bbox.top + Max(0, (available_h - panel_h) \div 2)
                         ELSE y0.value) + 39
              ELSE IF y0.is_none THEN margin
              ELSE y0.value
    IN [x_before |-> x1, y_before |-> y1,
        x |-> Max(0, Min(x1, bg_w - panel_w)),
        y |-> Max(0, Min(y1, bg_h - panel_h))]

\* The composition centring a panel that is larger than the frame box.
compose_qr_on_background_centres_large_panel(qr_panel, background, frame_bbox) ==
    LET bg_w == background.width
        bg_h == background.height
        panel_w == qr_panel.width
        panel_h == qr_panel.height
        margin == 24
        x0 == parse_optional_int(settings.QR_PANEL_X)
        y0 == parse_optional_int(settings.QR_PANEL_Y)
        available_w == Max(0, frame_bbox.right - frame_bbox.left)
        available_h == Max(0, frame_bbox.bottom - frame_bbox.top)
        x1 == IF ~(x0.is_none \/ y0.is_none) THEN x0.value
              ELSE IF frame_bbox.found
                   THEN (IF x0.is_none
                         THEN frame_bbox.left + ((available_w - panel_w) \div 2)
                         ELSE x0.value) - 44
              ELSE IF x0.is_none THEN margin
              ELSE x0.value
        y1 == IF ~(x0.is_none \/ y0.is_none) THEN y0.value
              ELSE IF frame_bbox.found
                   THEN (IF y0.is_none
                         THEN frame_bbox.top + ((available_h - panel_h) \div 2)
                         ELSE y0.value) + 39
              ELSE IF y0.is_none THEN bg_h - panel_h - margin
              ELSE y0.value
    IN [x_before |-> x1, y_before |-> y1,
        x |-> Max(0, Min(x1, bg_w - panel_w)),
        y |-> Max(0, Min(y1, bg_h - panel_h))]

\* compose_qr_on_background(qr_panel, background, frame_bbox): x and y as
\* they stand before the two lines that clamp them, and the position the
\* panel is pasted at.
compose_qr_on_background(qr_panel, background, frame_bbox) ==
    LET bg_w == background.width
        bg_h == background.height
        panel_w == qr_panel.width
        panel_h == qr_panel.height
        margin == 24
        x0 == parse_optional_int(settings.QR_PANEL_X)
        y0 == parse_optional_int(settings.QR_PANEL_Y)
        available_w == Max(0, frame_bbox.right - frame_bbox.left)
        available_h == Max(0, frame_bbox.bottom - frame_bbox.top)
        x1 == IF ~(x0.is_none \/ y0.is_none) THEN x0.value
              ELSE IF frame_bbox.found
                   THEN (IF x0.is_none
                         THEN frame_bbox.left + Max(0, (available_w - panel_w) \div 2)
                         ELSE x0.value) - 44
              ELSE IF x0.is_none THEN margin
              ELSE x0.value
        y1 == IF ~(x0.is_none \/ y0.is_none) THEN y0.value
              ELSE IF frame_bbox.found
                   THEN (IF y0.is_none
                         THEN frame_bbox.top + Max(0, (available_h - panel_h) \div 2)
                         ELSE y0.value) + 39
              ELSE IF y0.is_none THEN bg_h - panel_h - margin
              ELSE y0.value
    IN [x_before |-> x1, y_before |-> y1,
        x |-> Max(0, Min(x1, bg_w - panel_w)),
        y |-> Max(0, Min(y1, bg_h - panel_h))]

\* build_qr_background_image: FileNotFoundError, the path in its message,
\* without a file at BG_IMAGE_PATH (template is the file at the stripped
\* path), else everything the call computes on its way to the image.
S_Khong_tim_thay_anh_nen ==
    <<"K", "h", "o", "n", "g", " ", "t", "i", "m", " ", "t", "h", "a", "y", " ",
      "a", "n", "h", " ", "n", "e", "n", ":", " ">>

Missing(bg_path) ==
    [built |-> FALSE, error |-> "FileNotFoundError",
     message |-> S_Khong_tim_thay_anh_nen \o bg_path]

\* The call reporting the missing template without saying which.
build_qr_background_image_without_path(sizes) ==
    LET bg_path == strip(settings.BG_IMAGE_PATH)
    IN IF template = NoImage THEN Missing(<<>>)
       ELSE LET background == template
                frame_bbox == detect_frame_bbox(background)
                target_size == resolve_qr_size(background, sizes, frame_bbox)
                qr_img == resize_qr_image(target_size)
                qr_panel == build_qr_panel(qr_img, sizes)
                pasted == compose_qr_on_background(qr_panel, background, frame_bbox)
            IN [built |-> TRUE, background |-> background, frame_bbox |-> frame_bbox,
                target_size |-> target_size, qr_img |-> qr_img, qr_panel |-> qr_panel,
                x_before |-> pasted.x_before, y_before |-> pasted.y_before,
                x |-> pasted.x, y |-> pasted.y]

build_qr_background_image(sizes) ==
    LET bg_path == strip(settings.BG_IMAGE_PATH)
    IN IF template = NoImage THEN Missing(bg_path)
       ELSE LET background == template
                frame_bbox == detect_frame_bbox(background)
                target_size == resolve_qr_size(background, sizes, frame_bbox)
                qr_img == resize_qr_image(target_size)
                qr_panel == build_qr_panel(qr_img, sizes)
                pasted == compose_qr_on_background(qr_panel, background, frame_bbox)
            IN [built |-> TRUE, background |-> background, frame_bbox |-> frame_bbox,
                target_size |-> target_size, qr_img |-> qr_img, qr_panel |-> qr_panel,
                x_before |-> pasted.x_before, y_before |-> pasted.y_before,
                x |-> pasted.x, y |-> pasted.y]

----------------------------------------------------------------------------
(* SpecImage: build_qr_background_image on the template at BG_IMAGE_PATH,  *)
(* which may be edited between two calls                                   *)

MaxBuilds == 2

Image(width, height, painted) == [width |-> width, height |-> height, painted |-> painted]

\* Templates: white; with the two corners of a frame in black; too small
\* for any panel; with dark pixels too close together for a frame; with a
\* pixel that is dark in two channels only; with dark pixels exactly 20
\* apart; with no pixel dark in all three channels; with a frame too narrow
\* for a code.
Templates ==
    { Image(400, 400, <<>>),
      Image(400, 400, (<<20, 120>> :> Black) @@ (<<250, 390>> :> Black)),
      Image(1000, 800, (<<50, 250>> :> Black) @@ (<<600, 750>> :> Black)),
      Image(150, 150, <<>>),
      Image(400, 400, (<<20, 120>> :> Black) @@ (<<35, 390>> :> Black)),
      Image(400, 400, (<<20, 120>> :> <<80, 80, 200>>) @@ (<<250, 390>> :> Black)),
      Image(400, 400, (<<20, 120>> :> Black) @@ (<<40, 390>> :> Black)),
      Image(400, 400, (<<20, 120>> :> <<80, 80, 200>>) @@ (<<250, 390>> :> <<90, 0, 0>>)),
      Image(400, 400, (<<20, 120>> :> Black) @@ (<<90, 390>> :> Black)) }

\* The sizes of the three lines (bank, holder, account number) in the
\* default font: the usual ones, and no bank line over a holder line wider
\* than a small code.
LineSizes ==
    { << <<60, 11>>, <<72, 11>>, <<60, 11>> >>,
      << <<0, 0>>, <<200, 13>>, <<60, 11>> >> }

QrSizes ==
    { <<>>, <<"5", "0">>, <<"0">>, <<"-", "5">>, <<"a", "b", "c">>,
      <<"3", "0", "0">>, <<" ", "2", "0", "0", " ">>, <<"2", "0", "0", "0">> }
PanelXs == { <<>>, <<"1", "0", "0">>, <<"-", "7">>, <<"5", "0", "0", "0">>, <<"x">> }
PanelYs == { <<>>, <<"6", "0">>, <<"x">> }
\* BG_IMAGE_PATH: the default, or the value of the environment variable,
\* which seed_settings_from_env strips and takes only when it is not empty.
BgPaths == { S_bg_png, <<"t", "/", "q", "r", ".", "p", "n", "g">> }

\* The settings: every QR_SIZE without position overrides, every pair of
\* position overrides with no QR_SIZE or QR_SIZE 300, and every template
\* path with no override.
ImageSettings ==
    {c \in [DEFAULT_BANK_BIN : {<<>>}, DEFAULT_ACCOUNT_NO : {<<>>}, DEBUG : {FALSE},
            QR_PANEL_X : PanelXs, QR_PANEL_Y : PanelYs, QR_SIZE : QrSizes,
            BG_IMAGE_PATH : BgPaths] :
        /\ \/ c.QR_PANEL_X = <<>> /\ c.QR_PANEL_Y = <<>>
           \/ c.QR_SIZE \in {<<>>, <<"3", "0", "0">>}
        /\ \/ c.BG_IMAGE_PATH = S_bg_png
           \/ c.QR_PANEL_X = <<>> /\ c.QR_PANEL_Y = <<>> /\ c.QR_SIZE = <<>>}

InitImage ==
    /\ template \in Templates \cup {NoImage}
    /\ line_sizes \in LineSizes
    /\ settings \in ImageSettings
    /\ image = NotBuilt
    /\ builds = 0
    /\ accounts = <<>>
    /\ user_data = [user_id \in Users |-> EmptyUserData]
    /\ replies = <<>>
    /\ now = 0
    /\ calls = 0
    /\ EncoderIdle /\ CrcIdle /\ AmountIdle /\ DbIdle /\ AccessIdle /\ CryptoIdle /\ outbox = <<>> /\ DialogIdle /\ event = NoCall

BuildQrBackgroundImage ==
    /\ builds < MaxBuilds
    /\ image' = build_qr_background_image(line_sizes)
    /\ builds' = builds + 1
    /\ UNCHANGED <<template, line_sizes, botVars, encoderVars, crcVars, amountVars, dbVars,
                   accessVars, cryptoVars, outbox, dialog, event>>

\* The pixels an edit of the template touches: in the last column the
\* detector scans and the one after it, in the row above the first one it
\* scans and that row, and in the top left corner.
EditedPixels(background) ==
    LET end_x == (background.width * 65) \div 100
        start_y == (background.height * 25) \div 100
    IN { <<end_x, background.height - 50>>, <<end_x + 1, background.height - 50>>,
         <<background.width \div 4, start_y - 1>>, <<background.width \div 4, start_y>>,
         <<0, 0>> }

\* One pixel of an image in another colour; painted holds what is not white.
Repainted(background, p, colour) ==
    LET keep == IF colour = White THEN DOMAIN background.painted \ {p}
                ELSE DOMAIN background.painted \cup {p}
    IN Image(background.width, background.height,
             [q \in keep |-> IF q = p THEN colour ELSE background.painted[q]])

\* The template file is edited, one pixel, after an image was built from it.
EditTemplate ==
    /\ image # NotBuilt /\ image.built
    /\ template = image.background
    /\ \E p \in EditedPixels(template), colour \in {Black, White} :
          /\ template' = Repainted(template, p, colour)
          /\ template' # template
    /\ UNCHANGED <<line_sizes, image, builds, botVars, encoderVars, crcVars, amountVars,
                   dbVars,
                   accessVars, cryptoVars, outbox, dialog, event>>

NextImage == BuildQrBackgroundImage \/ EditTemplate

SpecImage == InitImage /\ [][NextImage]_vars

----------------------------------------------------------------------------
(* The table group_chats                                                   *)

\* The chats the users name.
ChatIds == {-100, -200, -300}

\* The title get_chat reports for a chat.
S_Team == <<"T", "e", "a", "m">>
ChatTitles == {S_Team}

\* A Fernet token is the base64 text of version, time, IV, ciphertext and
\* HMAC. It is written here as the version mark every token starts with, the
\* IV, and the text the key decrypts it to; a text without the mark or with
\* another IV has no valid HMAC.
FernetVersion == "gAAAAA"
FernetIVs == {IV0, "iv1"}

\* FERNET.encrypt(value.encode()).decode()
fernet_encrypt(text) == <<FernetVersion, fernet_iv>> \o text

\* FERNET.decrypt(token.encode()).decode(), or InvalidToken.
fernet_decrypt(token) ==
    IF Len(token) >= 2 /\ token[1] = FernetVersion /\ token[2] \in FernetIVs
    THEN [ok |-> TRUE, text |-> SubSeq(token, 3, Len(token))]
    ELSE [ok |-> FALSE, text |-> <<>>]

\* value.startswith(prefix)
startswith(value, prefix) ==
    Len(value) >= Len(prefix) /\ SubSeq(value, 1, Len(prefix)) = prefix

S_enc == <<"e", "n", "c", ":">>

\* encrypt_value that encrypts whatever it is given.
encrypt_value_without_marker_test(value) ==
    IF value = <<>> THEN value
    ELSE S_enc \o fernet_encrypt(value)

\* encrypt_value: '' and a value that starts with 'enc:' stay as they are,
\* everything else becomes 'enc:' and its token.
encrypt_value(value) ==
    IF value = <<>> THEN value
    ELSE IF startswith(value, S_enc) THEN value
    ELSE S_enc \o fernet_encrypt(value)

\* decrypt_value: '' and a value without 'enc:' stay as they are; after
\* 'enc:' the token is decrypted, '' for an invalid token.
decrypt_value(value) ==
    IF value = <<>> THEN value
    ELSE IF startswith(value, S_enc)
    THEN LET opened == fernet_decrypt(SubSeq(value, 5, Len(value)))
         IN IF opened.ok THEN opened.text ELSE <<>>
    ELSE value

\* A row of group_chats; (user_id, chat_id) is the primary key.
GroupRow(user_id, chat_id, is_default, chat_title, created_at) ==
    [user_id |-> user_id, chat_id |-> chat_id, is_default |-> is_default,
     chat_title |-> chat_title, created_at |-> created_at]

\* The rows of a user.
GroupsOf(user_id) == {row \in group_chats : row.user_id = user_id}

\* get_default_group_id: what the call can return, the chat of a row of
\* the user marked default (LIMIT 1 takes any) or None.
get_default_group_id(user_id) ==
    LET marked == {row \in GroupsOf(user_id) : row.is_default}
    IN IF marked = {} THEN {NoInt} ELSE {SomeInt(row.chat_id) : row \in marked}

\* add_group_chat: INSERT OR IGNORE of the row, default when the user has
\* no default row, then the title for a row without one.
add_group_chat(user_id, chat_id, chat_title) ==
    LET has_default == Cardinality({row \in GroupsOf(user_id) : row.is_default})
        is_default == has_default = 0
        stored == \E row \in group_chats : row.user_id = user_id /\ row.chat_id = chat_id
        inserted == IF stored THEN group_chats
                    ELSE group_chats \cup {GroupRow(user_id, chat_id, is_default,
                                                    encrypt_value(chat_title), now)}
    IN { IF row.user_id = user_id /\ row.chat_id = chat_id /\ row.chat_title = <<>>
         THEN [row EXCEPT !.chat_title = encrypt_value(chat_title)]
         ELSE row : row \in inserted }

\* remove_group_chat: the tables the call can leave. The row is deleted;
\* when it was the default, a row of the user with the least created_at
\* (ORDER BY created_at ASC LIMIT 1: any of them on a tie) becomes default.
remove_group_chat(user_id, chat_id) ==
    LET was_default == \E row \in group_chats :
                          row.user_id = user_id /\ row.chat_id = chat_id /\ row.is_default
        kept == {row \in group_chats : ~(row.user_id = user_id /\ row.chat_id = chat_id)}
        mine == {row \in kept : row.user_id = user_id}
        first == {row \in mine : \A other \in mine : row.created_at <= other.created_at}
    IN IF was_default /\ mine # {}
       THEN { { IF row.user_id = user_id /\ row.chat_id = chosen.chat_id
                THEN [row EXCEPT !.is_default = TRUE]
                ELSE row : row \in kept } : chosen \in first }
       ELSE {kept}

\* set_default_group: two UPDATEs, the first clears is_default on the rows
\* of the user, the second sets it on the row of the user with that chat.
set_default_group(user_id, chat_id) ==
    LET cleared == { IF row.user_id = user_id THEN [row EXCEPT !.is_default = FALSE]
                     ELSE row : row \in group_chats }
    IN { IF row.user_id = user_id /\ row.chat_id = chat_id
         THEN [row EXCEPT !.is_default = TRUE]
         ELSE row : row \in cleared }

\* The table after init_db: empty, or the row of GROUP_CHAT_ID for the
\* first admin, default and without a title.
InitGroups ==
    /\ group_chats \in { {}, {GroupRow(1, -100, TRUE, <<>>, 0)} }
    /\ account_call = NoCall
    /\ EncoderIdle /\ CrcIdle /\ BotIdle /\ AmountIdle /\ ImageIdle
    /\ AccessIdle /\ CryptoIdle /\ outbox = <<>> /\ DialogIdle /\ event = NoCall

AddGroupChat ==
    /\ \E user_id \in Users, chat_id \in ChatIds, chat_title \in ChatTitles :
          group_chats' = add_group_chat(user_id, chat_id, chat_title)
    /\ UNCHANGED <<account_call, botVars, encoderVars, crcVars, amountVars, imageVars,
                   accessVars, cryptoVars, outbox, dialog, event>>

RemoveGroupChat ==
    /\ \E user_id \in Users, chat_id \in ChatIds :
          group_chats' \in remove_group_chat(user_id, chat_id)
    /\ UNCHANGED <<account_call, botVars, encoderVars, crcVars, amountVars, imageVars,
                   accessVars, cryptoVars, outbox, dialog, event>>

SetDefaultGroup ==
    /\ \E user_id \in Users, chat_id \in ChatIds :
          group_chats' = set_default_group(user_id, chat_id)
    /\ UNCHANGED <<account_call, botVars, encoderVars, crcVars, amountVars, imageVars,
                   accessVars, cryptoVars, outbox, dialog, event>>

NextGroups == AddGroupChat \/ RemoveGroupChat \/ SetDefaultGroup \/ Tick

SpecGroups == InitGroups /\ [][NextGroups]_vars

----------------------------------------------------------------------------
(* The table accounts                                                      *)

MaxAccounts == 3

\* The ids a callback can carry: those of the rows and one of no row.
AccountIds == 1..(MaxAccounts + 1)

\* The account the conversation collected (bill_handler, save_account).
PendingAccount == [bank_name |-> S_Vietcombank, bank_bin |-> S_970436,
                   account_no |-> S_0123456789, account_name |-> S_NGUYEN_VAN_A]

\* save_account: the row is inserted with the next id, default when the
\* user has no default row (created_at is written and never read).
save_account(user_id, account) ==
    LET has_default == Cardinality({i \in 1..Len(accounts) :
                           accounts[i].user_id = user_id /\ accounts[i].is_default})
        is_default == has_default = 0
    IN Append(accounts,
              [id |-> Len(accounts) + 1, user_id |-> user_id,
               bank_name |-> account.bank_name, bank_bin |-> account.bank_bin,
               account_no |-> account.account_no, account_name |-> account.account_name,
               is_default |-> is_default])

\* set_default_account with the default set on the row of that id, whose
\* ever it is.
set_default_account_of_any_user(user_id, account_id) ==
    LET cleared == [i \in 1..Len(accounts) |->
                       IF accounts[i].user_id = user_id
                       THEN [accounts[i] EXCEPT !.is_default = FALSE]
                       ELSE accounts[i]]
    IN [i \in 1..Len(accounts) |->
           IF cleared[i].id = account_id
           THEN [cleared[i] EXCEPT !.is_default = TRUE]
           ELSE cleared[i]]

\* set_default_account: two UPDATEs, the first clears is_default on the
\* rows of the user, the second sets it on the row of the user with that id.
set_default_account(user_id, account_id) ==
    LET cleared == [i \in 1..Len(accounts) |->
                       IF accounts[i].user_id = user_id
                       THEN [accounts[i] EXCEPT !.is_default = FALSE]
                       ELSE accounts[i]]
    IN [i \in 1..Len(accounts) |->
           IF cleared[i].user_id = user_id /\ cleared[i].id = account_id
           THEN [cleared[i] EXCEPT !.is_default = TRUE]
           ELSE cleared[i]]

InitAccounts ==
    /\ BotIdle
    /\ group_chats = {}
    /\ account_call = NoCall
    /\ EncoderIdle /\ CrcIdle /\ AmountIdle /\ ImageIdle
    /\ AccessIdle /\ CryptoIdle /\ outbox = <<>> /\ DialogIdle /\ event = NoCall

SaveAccount ==
    /\ Len(accounts) < MaxAccounts
    /\ \E user_id \in Users :
          /\ accounts' = save_account(user_id, PendingAccount)
          /\ account_call' = [op |-> "save_account", user_id |-> user_id]
    /\ UNCHANGED <<settings, user_data, replies, now, calls, group_chats,
                   encoderVars, crcVars, amountVars, imageVars,
                   accessVars, cryptoVars, outbox, dialog, event>>

SetDefaultAccount ==
    /\ \E user_id \in Users, account_id \in AccountIds :
          /\ accounts' = set_default_account(user_id, account_id)
          /\ account_call' = [op |-> "set_default_account", user_id |-> user_id,
                              account_id |-> account_id]
    /\ UNCHANGED <<settings, user_data, replies, now, calls, group_chats,
                   encoderVars, crcVars, amountVars, imageVars,
                   accessVars, cryptoVars, outbox, dialog, event>>

NextAccounts == SaveAccount \/ SetDefaultAccount

SpecAccounts == InitAccounts /\ [][NextAccounts]_vars

----------------------------------------------------------------------------
(* Who may use the bot                                                     *)

\* A message the bot sends: its text (the fixed part of an f-string) and
\* the callback data of its buttons.
Msg(text) == [text |-> text, detail |-> "", payload |-> <<>>, buttons |-> <<>>]
MsgButtons(text, buttons) ==
    [text |-> text, detail |-> "", payload |-> <<>>, buttons |-> buttons]

is_admin_user(user_id) == user_id \in admin_users

is_allowed_user(user_id) == is_admin_user(user_id) \/ user_id \in allowed_users

build_main_menu_keyboard(is_admin) ==
    <<"menu:qr", "menu:bank", "menu:groups">>
        \o (IF is_admin THEN <<"menu:users">> ELSE <<>>) \o <<"menu:help">>

MSG_NOT_ALLOWED == Msg("Ban khong co quyen su dung bot nay.")
MSG_NOT_ADMIN == Msg("Ban khong co quyen su dung lenh nay.")
MSG_REGISTER ==
    MsgButtons("Ban chua duoc cap quyen. Bam nut de gui yeu cau.", <<"reg:request">>)
MsgGreeting(user_id) ==
    MsgButtons("Chon mot dich vu cua chung toi:",
               build_main_menu_keyboard(is_admin_user(user_id)))

\* The ids of a set as a list (list_admin_users orders them by created_at,
\* which the set does not keep; here by id).
RECURSIVE SortedIds(_)
SortedIds(ids) ==
    IF ids = {} THEN <<>>
    ELSE LET least == CHOOSE i \in ids : \A j \in ids : i <= j
         IN <<least>> \o SortedIds(ids \ {least})

\* context.bot.send_message of the access request of a user to an admin.
AccessNotice(admin_id, user_id) ==
    [kind |-> "access_request", chat_id |-> admin_id, text |-> "Yeu cau truy cap tu",
     about |-> user_id]

\* submit_access_request that notifies the admins of every /start.
submit_access_request_always_notifies(user_id) ==
    /\ access_requests' = access_requests \cup {user_id}
    /\ \E reached \in SUBSET admin_users :
          outbox' = outbox \o [i \in 1..Cardinality(reached) |->
                                  AccessNotice(SortedIds(reached)[i], user_id)]

\* submit_access_request: INSERT OR IGNORE of the row of the user (its
\* names and created_at are not read by the bot); when a row was inserted,
\* a message to every admin, each of which can fail and is then skipped.
submit_access_request(user_id) ==
    LET inserted == user_id \notin access_requests
    IN /\ access_requests' = access_requests \cup {user_id}
       /\ IF inserted
          THEN \E reached \in SUBSET admin_users :
                  outbox' = outbox \o [i \in 1..Cardinality(reached) |->
                                          AccessNotice(SortedIds(reached)[i], user_id)]
          ELSE UNCHANGED outbox

start_handler(user_id) ==
    IF ~is_allowed_user(user_id)
    THEN /\ submit_access_request(user_id)
         /\ replies' = <<MSG_REGISTER>>
    ELSE /\ replies' = <<MsgGreeting(user_id)>>
         /\ UNCHANGED <<access_requests, outbox>>

\* help_handler, in a private chat.
help_handler(user_id) ==
    IF ~is_allowed_user(user_id)
    THEN replies' = <<MSG_REGISTER>>
    ELSE replies' = <<MsgGreeting(user_id)>>

\* register_callback: the greeting for a user who is allowed; for any other
\* user the row in allowed_users, the access request deleted, the greeting.
register_callback(user_id) ==
    IF is_allowed_user(user_id)
    THEN /\ replies' = <<MsgGreeting(user_id)>>
         /\ UNCHANGED <<allowed_users, access_requests>>
    ELSE /\ allowed_users' = allowed_users \cup {user_id}
         /\ access_requests' = access_requests \ {user_id}
         /\ replies' = <<MsgGreeting(user_id)>>

\* approve_handler; args is the text after the command, one word or none.
approve_handler(user_id, args) ==
    IF ~is_admin_user(user_id)
    THEN /\ replies' = <<MSG_NOT_ADMIN>>
         /\ UNCHANGED <<allowed_users, access_requests>>
    ELSE IF args = <<>>
    THEN /\ replies' = <<Msg("Dung: /approve <user_id>")>>
         /\ UNCHANGED <<allowed_users, access_requests>>
    ELSE IF ~int_of(args).ok
    THEN /\ replies' = <<Msg("User ID khong hop le.")>>
         /\ UNCHANGED <<allowed_users, access_requests>>
    ELSE /\ allowed_users' = allowed_users \cup {int_of(args).value}
         /\ access_requests' = access_requests \ {int_of(args).value}
         /\ replies' = <<Msg("Da cap quyen cho")>>

deny_handler(user_id, args) ==
    IF ~is_admin_user(user_id)
    THEN /\ replies' = <<MSG_NOT_ADMIN>>
         /\ UNCHANGED access_requests
    ELSE IF args = <<>>
    THEN /\ replies' = <<Msg("Dung: /deny <user_id>")>>
         /\ UNCHANGED access_requests
    ELSE IF ~int_of(args).ok
    THEN /\ replies' = <<Msg("User ID khong hop le.")>>
         /\ UNCHANGED access_requests
    ELSE /\ access_requests' = access_requests \ {int_of(args).value}
         /\ replies' = <<Msg("Da tu choi")>>

\* user_manage_callback; parts is the callback data split at ':', the id of
\* 'user:remove:<id>' as text. (The keyboards it shows are not modelled.)
user_manage_callback(user_id, parts) ==
    IF ~is_admin_user(user_id)
    THEN /\ replies' = <<Msg("Ban khong co quyen su dung chuc nang nay.")>>
         /\ UNCHANGED <<allowed_users, dialog>>
    ELSE IF parts[2] = "add"
    THEN /\ dialog' = [dialog EXCEPT ![user_id].menu_state = "user_add"]
         /\ replies' = <<MsgButtons("Nhap user id can them (vi du: 123456789).",
                                    <<"back:menu">>)>>
         /\ UNCHANGED allowed_users
    ELSE IF parts[2] \in {"del", "list"}
    THEN /\ replies' = <<IF allowed_users = {} THEN Msg("Chua co user nao.")
                         ELSE IF parts[2] = "del" THEN Msg("Chon user de xoa:")
                         ELSE Msg("Danh sach user:")>>
         /\ UNCHANGED <<allowed_users, dialog>>
    ELSE IF parts[2] = "remove" /\ Len(parts) = 3
    THEN IF ~int_of(parts[3]).ok
         THEN /\ replies' = <<Msg("User ID khong hop le.")>>
              /\ UNCHANGED <<allowed_users, dialog>>
         ELSE /\ allowed_users' = allowed_users \ {int_of(parts[3]).value}
              /\ replies' = <<Msg("Da xoa user.")>>
              /\ UNCHANGED dialog
    ELSE /\ replies' = <<Msg("Khong ho tro thao tac nay.")>>
         /\ UNCHANGED <<allowed_users, dialog>>

----------------------------------------------------------------------------
(* The conversation of the private chat                                    *)

\* The most accounts a user may store.
ACCOUNT_LIMIT == 5

\* shlex.split(text) of a text without quotes and backslashes: the words
\* between the spaces.
RECURSIVE shlex_split(_)
shlex_split(text) ==
    LET t == strip(text)
        spaces == {i \in 1..Len(t) : t[i] = " "}
        cut == CHOOSE i \in spaces : \A j \in spaces : i <= j
    IN IF t = <<>> THEN <<>>
       ELSE IF spaces = {} THEN <<t>>
       ELSE <<SubSeq(t, 1, cut - 1)>> \o shlex_split(SubSeq(t, cut + 1, Len(t)))

\* ' '.join(parts)
RECURSIVE join_space(_)
join_space(parts) ==
    IF parts = <<>> THEN <<>>
    ELSE IF Len(parts) = 1 THEN parts[1]
    ELSE parts[1] \o <<" ">> \o join_space(Tail(parts))

\* parse_amount_to_int: None for no amount and for what float() rejects;
\* int(round(float(s))) rounds a half to the even neighbour.
parse_amount_to_int(raw) ==
    LET amount_str == normalize_amount(IF raw = None THEN <<>> ELSE raw)
        parts == split_dot(amount_str)
        whole == digits_value(parts[1])
        hundredths == digits_value(parts[2] \o Rep("0", 2 - Len(parts[2])))
    IN IF ~truthy(amount_str) THEN NoInt
       ELSE IF Len(parts) = 2
       THEN IF parts[1] = <<>> /\ parts[2] = <<>> THEN NoInt
            ELSE IF hundredths < 50 THEN SomeInt(whole)
            ELSE IF hundredths > 50 THEN SomeInt(whole + 1)
            ELSE SomeInt(IF whole % 2 = 0 THEN whole ELSE whole + 1)
       ELSE SomeInt(digits_value(amount_str))

\* account_count counting the default rows only.
account_count_of_default_rows(user_id) ==
    Cardinality({i \in 1..Len(accounts) :
                    accounts[i].user_id = user_id /\ accounts[i].is_default})

\* account_count: SELECT COUNT(*) of the rows of the user.
account_count(user_id) ==
    Cardinality({i \in 1..Len(accounts) : accounts[i].user_id = user_id})

\* A pending_account in which a key is None when the dict has no such key.
EmptyAccount == [present |-> TRUE, bank_name |-> None, bank_bin |-> None,
                 account_no |-> None, account_name |-> None]

\* context.user_data.get('pending_account') or {}
pending_or_empty(pending) == IF pending.present THEN pending ELSE EmptyAccount

\* account.get(key, '')
dict_get(value) == IF value = None THEN <<>> ELSE value

build_bill_people_keyboard == <<"bill:2", "bill:3", "bill:4", "bill:5", "bill:6", "bill:8">>

\* What profile_handler can change besides its reply.
profileVars == <<dialog, request, result, user_data, group_chats, allowed_users,
                 accounts>>

\* profile_handler with profile_state 'account_name': the name must not be
\* empty and the user must have fewer than five accounts; then the account
\* is saved and the conversation is over.
profile_handler_account_name(user_id, text) ==
    LET pending == pending_or_empty(dialog[user_id].pending_account)
        named == [pending EXCEPT !.account_name = text]
    IN IF ~truthy(text)
       THEN /\ replies' = <<Msg("Ten khong hop le. Nhap lai.")>>
            /\ UNCHANGED profileVars
       ELSE IF account_count(user_id) >= ACCOUNT_LIMIT
       THEN /\ dialog' = [dialog EXCEPT ![user_id].profile_state = Absent,
                                        ![user_id].pending_account = NoPending]
            /\ replies' = <<Msg("Da dat toi da 5 tai khoan.")>>
            /\ UNCHANGED <<request, result, user_data, group_chats, allowed_users,
                           accounts>>
       ELSE /\ accounts' = save_account(user_id,
                              [bank_name |-> dict_get(named.bank_name),
                               bank_bin |-> dict_get(named.bank_bin),
                               account_no |-> dict_get(named.account_no),
                               account_name |-> dict_get(named.account_name)])
            /\ dialog' = [dialog EXCEPT ![user_id].profile_state = Absent,
                                        ![user_id].pending_account = NoPending]
            /\ replies' = <<MsgButtons("Da luu, chon tao QR de tien hanh su dung dich vu.",
                                build_main_menu_keyboard(is_admin_user(user_id)))>>
            /\ UNCHANGED <<request, result, user_data, group_chats, allowed_users>>

\* profile_handler with profile_state 'account_no'.
profile_handler_account_no(user_id, text) ==
    LET pending == pending_or_empty(dialog[user_id].pending_account)
    IN IF ~isdigit(text) \/ Len(text) < 6
       THEN /\ replies' = <<Msg("So tai khoan khong hop le. Nhap lai.")>>
            /\ UNCHANGED profileVars
       ELSE /\ dialog' = [dialog EXCEPT
                             ![user_id].pending_account = [pending EXCEPT !.account_no = text],
                             ![user_id].profile_state = "account_name"]
            /\ replies' = <<MsgButtons("Nhap ten chu tai khoan (in hoa khong dau).",
                                       <<"back:account_no">>)>>
            /\ UNCHANGED <<request, result, user_data, group_chats, allowed_users,
                           accounts>>

\* profile_handler without profile_state: the text is what menu_state asks
\* for, and nothing without menu_state. get_chat gives the title of the chat
\* or fails, and the title is then ''.
profile_handler_menu(user_id, text) ==
    LET menu_state == dialog[user_id].menu_state
        parts == shlex_split(text)
        total == parse_amount_to_int(parts[1])
        id == int_of(text)
    IN IF menu_state = "qr"
       THEN IF parts = <<>>
            THEN /\ replies' = <<Msg("Nhap so tien va noi dung.")>>
                 /\ UNCHANGED profileVars
            ELSE /\ dialog' = [dialog EXCEPT ![user_id].menu_state = Absent]
                 /\ create_qr_request(user_id, parts[1], join_space(Tail(parts)),
                                      None, None)
                 /\ UNCHANGED <<group_chats, allowed_users, accounts>>
       ELSE IF menu_state = "bill"
       THEN IF parts = <<>>
            THEN /\ replies' = <<Msg("Nhap tong va noi dung (optional).")>>
                 /\ UNCHANGED profileVars
            ELSE IF total.is_none \/ total.value <= 0
            THEN /\ replies' = <<Msg("Tong tien khong hop le.")>>
                 /\ UNCHANGED profileVars
            ELSE /\ dialog' = [dialog EXCEPT
                                  ![user_id].bill_total = SomeInt(total.value),
                                  ![user_id].bill_note = strip(join_space(Tail(parts))),
                                  ![user_id].menu_state = Absent]
                 /\ replies' = <<MsgButtons("Chon so nguoi de chia deu. Tong:",
                                            build_bill_people_keyboard)>>
                 /\ UNCHANGED <<request, result, user_data, group_chats, allowed_users,
                                accounts>>
       ELSE IF menu_state = "group_add"
       THEN IF ~id.ok
            THEN /\ replies' = <<Msg("Chat ID khong hop le.")>>
                 /\ UNCHANGED profileVars
            ELSE /\ \E chat_title \in {<<>>, S_Team} :
                       group_chats' = add_group_chat(user_id, id.value, chat_title)
                 /\ dialog' = [dialog EXCEPT ![user_id].menu_state = Absent]
                 /\ replies' = <<MsgButtons("Da them group.",
                                     build_main_menu_keyboard(is_admin_user(user_id)))>>
                 /\ UNCHANGED <<request, result, user_data, allowed_users, accounts>>
       ELSE IF menu_state = "user_add"
       THEN IF ~id.ok
            THEN /\ replies' = <<Msg("User ID khong hop le.")>>
                 /\ UNCHANGED profileVars
            ELSE IF ~is_admin_user(user_id)
            THEN /\ replies' = <<Msg("Ban khong co quyen su dung chuc nang nay.")>>
                 /\ dialog' = [dialog EXCEPT ![user_id].menu_state = Absent]
                 /\ UNCHANGED <<request, result, user_data, group_chats, allowed_users,
                                accounts>>
            ELSE /\ allowed_users' = allowed_users \cup {id.value}
                 /\ dialog' = [dialog EXCEPT ![user_id].menu_state = Absent]
                 /\ replies' = <<MsgButtons("Da them user.",
                                     build_main_menu_keyboard(is_admin_user(user_id)))>>
                 /\ UNCHANGED <<request, result, user_data, group_chats, accounts>>
       ELSE /\ replies' = <<>>
            /\ UNCHANGED profileVars

\* profile_handler: a text that is not a command, from a chat of chat_type.
profile_handler(user_id, chat_type, message_text) ==
    LET state == dialog[user_id].profile_state
        text == strip(message_text)
    IN IF ~is_allowed_user(user_id)
       THEN /\ replies' = <<MSG_NOT_ALLOWED>>
            /\ UNCHANGED profileVars
       ELSE IF chat_type # "private"
       THEN /\ replies' = <<>>
            /\ UNCHANGED profileVars
       ELSE IF state = Absent
       THEN profile_handler_menu(user_id, text)
       ELSE IF state = "account_no"
       THEN profile_handler_account_no(user_id, text)
       ELSE IF state = "account_name"
       THEN profile_handler_account_name(user_id, text)
       ELSE /\ replies' = <<>>
            /\ UNCHANGED profileVars

\* menu_callback; action is the callback data after 'menu:'.
menu_callback(user_id, action) ==
    IF ~is_allowed_user(user_id)
    THEN /\ replies' = <<MSG_NOT_ALLOWED>>
         /\ UNCHANGED dialog
    ELSE IF action = "qr:normal"
    THEN /\ dialog' = [dialog EXCEPT ![user_id].menu_state = "qr"]
         /\ replies' = <<MsgButtons("Nhap so tien va noi dung. Vi du: 100000 Tien an trua",
                                    <<"back:menu">>)>>
    ELSE IF action = "qr:bill"
    THEN /\ dialog' = [dialog EXCEPT ![user_id].menu_state = "bill"]
         /\ replies' = <<MsgButtons("Nhap tong va noi dung (optional). Vi du: 250000 An trua",
                                    <<"back:menu">>)>>
    ELSE /\ replies' = <<IF action = "qr" THEN Msg("Chon thao tac QR:")
                         ELSE IF action = "bank" THEN Msg("Quan ly tai khoan:")
                         ELSE IF action = "groups" THEN Msg("Quan ly nhom chat:")
                         ELSE IF action = "users"
                         THEN IF is_admin_user(user_id) THEN Msg("Quan ly nguoi dung:")
                              ELSE Msg("Chi admin moi duoc quan ly nguoi dung.")
                         ELSE IF action = "help" THEN Msg("Huong dan su dung")
                         ELSE Msg("Khong ho tro thao tac nay.")>>
         /\ UNCHANGED dialog

\* group_manage_callback; parts is the callback data split at ':', the chat
\* id of 'group:set:<id>' and 'group:remove:<id>' as text.
group_manage_callback(user_id, parts) ==
    IF ~is_allowed_user(user_id)
    THEN /\ replies' = <<MSG_NOT_ALLOWED>>
         /\ UNCHANGED <<dialog, group_chats>>
    ELSE IF parts[2] = "add"
    THEN /\ dialog' = [dialog EXCEPT ![user_id].menu_state = "group_add"]
         /\ replies' = <<MsgButtons("Nhap chat id group (vi du: -1001234567890).",
                                    <<"back:menu">>)>>
         /\ UNCHANGED group_chats
    ELSE IF parts[2] \in {"del", "default", "list"}
    THEN /\ replies' = <<IF GroupsOf(user_id) = {} THEN Msg("Chua co group nao.")
                         ELSE IF parts[2] = "del" THEN Msg("Chon group de xoa:")
                         ELSE IF parts[2] = "default" THEN Msg("Chon group mac dinh:")
                         ELSE Msg("Danh sach group:")>>
         /\ UNCHANGED <<dialog, group_chats>>
    ELSE IF parts[2] \in {"set", "remove"} /\ Len(parts) = 3
    THEN IF ~int_of(parts[3]).ok
         THEN /\ replies' = <<Msg("Chat ID khong hop le.")>>
              /\ UNCHANGED <<dialog, group_chats>>
         ELSE IF parts[2] = "set"
         THEN /\ group_chats' = set_default_group(user_id, int_of(parts[3]).value)
              /\ replies' = <<Msg("Da dat group mac dinh.")>>
              /\ UNCHANGED dialog
         ELSE /\ group_chats' \in remove_group_chat(user_id, int_of(parts[3]).value)
              /\ replies' = <<Msg("Da xoa group.")>>
              /\ UNCHANGED dialog
    ELSE /\ replies' = <<Msg("Khong ho tro thao tac nay.")>>
         /\ UNCHANGED <<dialog, group_chats>>

\* bank_manage_callback; action is the callback data after 'bank:menu:'.
bank_manage_callback(user_id, action) ==
    IF ~is_allowed_user(user_id)
    THEN /\ replies' = <<MSG_NOT_ALLOWED>>
         /\ UNCHANGED dialog
    ELSE IF action = "add"
    THEN IF account_count(user_id) >= ACCOUNT_LIMIT
         THEN /\ replies' = <<Msg("Da dat toi da 5 tai khoan.")>>
              /\ UNCHANGED dialog
         ELSE /\ dialog' = [dialog EXCEPT ![user_id].profile_state = "bank_select"]
              /\ replies' = <<MsgButtons("Chon ngan hang:", <<"bank:", "back:menu">>)>>
    ELSE /\ replies' = <<IF action \in {"default", "list"}
                         THEN IF account_count(user_id) = 0
                              THEN Msg("Chua co tai khoan nao.")
                              ELSE IF action = "default" THEN Msg("Chon tai khoan mac dinh:")
                              ELSE Msg("Danh sach tai khoan:")
                         ELSE Msg("Khong ho tro thao tac nay.")>>
         /\ UNCHANGED dialog

\* bank_callback; parts is data.split(':', 2), the bank name and the bank
\* BIN as text.
bank_callback(user_id, parts) ==
    IF ~is_allowed_user(user_id)
    THEN /\ replies' = <<MSG_NOT_ALLOWED>>
         /\ UNCHANGED dialog
    ELSE IF dialog[user_id].profile_state # "bank_select"
    THEN /\ replies' = <<Msg("Khong co yeu cau chon ngan hang.")>>
         /\ UNCHANGED dialog
    ELSE IF Len(parts) # 3
    THEN /\ replies' = <<Msg("Lua chon ngan hang khong hop le.")>>
         /\ UNCHANGED dialog
    ELSE IF account_count(user_id) >= ACCOUNT_LIMIT
    THEN /\ dialog' = [dialog EXCEPT ![user_id].profile_state = Absent]
         /\ replies' = <<Msg("Da dat toi da 5 tai khoan.")>>
    ELSE /\ dialog' = [dialog EXCEPT
                          ![user_id].pending_account =
                              [EmptyAccount EXCEPT !.bank_name = parts[2],
                                                   !.bank_bin = parts[3]],
                          ![user_id].profile_state = "account_no"]
         /\ replies' = <<MsgButtons("Nhap so tai khoan (chi so, toi thieu 6 so).",
                                    <<"back:bank">>)>>

\* back_callback 'back:menu': profile_state and pending_account are popped.
back_callback_menu(user_id) ==
    dialog' = [dialog EXCEPT ![user_id].profile_state = Absent,
                             ![user_id].pending_account = NoPending]

\* back_callback; target is the callback data after 'back:'.
back_callback(user_id, target) ==
    LET pending == pending_or_empty(dialog[user_id].pending_account)
    IN IF ~is_allowed_user(user_id)
       THEN /\ replies' = <<MSG_NOT_ALLOWED>>
            /\ UNCHANGED dialog
       ELSE IF target = "bank"
       THEN /\ dialog' = [dialog EXCEPT ![user_id].profile_state = "bank_select",
                                        ![user_id].pending_account = NoPending]
            /\ replies' = <<MsgButtons("Chon ngan hang:", <<"bank:", "back:menu">>)>>
       ELSE IF target = "account_no"
       THEN IF ~truthy(pending.bank_bin)
            THEN /\ dialog' = [dialog EXCEPT ![user_id].profile_state = "bank_select"]
                 /\ replies' = <<MsgButtons("Chon ngan hang:", <<"bank:", "back:menu">>)>>
            ELSE /\ dialog' = [dialog EXCEPT ![user_id].profile_state = "account_no"]
                 /\ replies' = <<MsgButtons("Nhap so tai khoan (chi so, toi thieu 6 so).",
                                            <<"back:bank">>)>>
       ELSE IF target = "menu"
       THEN /\ back_callback_menu(user_id)
            /\ replies' = <<MsgGreeting(user_id)>>
       ELSE /\ replies' = <<Msg("Khong ho tro thao tac nay.")>>
            /\ UNCHANGED dialog

----------------------------------------------------------------------------
(* SpecAccess: an admin and a user who is not allowed send /start, /help,  *)
(* /approve, /deny and texts, and press the buttons of the user menu       *)

MaxEvents == 4

Admin == 1
Stranger == 2

\* The update a handler handles; for /start, whether the access request of
\* the user was stored when it came.
Event(handler, user_id, input) == [handler |-> handler, user_id |-> user_id, input |-> input]

\* What follows /approve and /deny, and the texts a user types.
IdTexts == {<<>>, <<"1">>, <<"2">>, <<"a">>}

\* The callback data of the user menu, split at ':'.
UserMenuData == { <<"user", "add">>, <<"user", "list">>, <<"user", "remove", <<"2">>>> }

\* What the handlers of this part leave alone.
accessFrame == <<settings, now, crcVars, amountVars, imageVars, cryptoVars,
                 account_call, admin_users>>

\* After init_db: ADMIN_USER_IDS names the admin, nobody else is allowed.
InitAccess ==
    /\ admin_users = {Admin}
    /\ allowed_users = {}
    /\ access_requests = {}
    /\ outbox = <<>>
    /\ DialogIdle
    /\ event = NoCall
    /\ BotIdle
    /\ group_chats = {}
    /\ account_call = NoCall
    /\ EncoderIdle /\ CrcIdle /\ AmountIdle /\ ImageIdle /\ CryptoIdle

StartHandler ==
    /\ calls < MaxEvents
    /\ \E user_id \in Users :
          /\ start_handler(user_id)
          /\ event' = Event("start_handler", user_id,
                            IF user_id \in access_requests THEN "request stored"
                            ELSE "no request stored")
    /\ calls' = calls + 1
    /\ UNCHANGED <<accessFrame, profileVars>>

HelpHandler ==
    /\ calls < MaxEvents
    /\ \E user_id \in Users :
          /\ help_handler(user_id)
          /\ event' = Event("help_handler", user_id, <<>>)
    /\ calls' = calls + 1
    /\ UNCHANGED <<accessFrame, profileVars, access_requests, outbox>>

RegisterCallback ==
    /\ calls < MaxEvents
    /\ \E user_id \in Users :
          /\ register_callback(user_id)
          /\ event' = Event("register_callback", user_id, <<>>)
    /\ calls' = calls + 1
    /\ UNCHANGED <<accessFrame, outbox, dialog, request, result, user_data, group_chats,
                   accounts>>

ApproveHandler ==
    /\ calls < MaxEvents
    /\ \E user_id \in Users, args \in IdTexts :
          /\ approve_handler(user_id, args)
          /\ event' = Event("approve_handler", user_id, args)
    /\ calls' = calls + 1
    /\ UNCHANGED <<accessFrame, outbox, dialog, request, result, user_data, group_chats,
                   accounts>>

DenyHandler ==
    /\ calls < MaxEvents
    /\ \E user_id \in Users, args \in IdTexts :
          /\ deny_handler(user_id, args)
          /\ event' = Event("deny_handler", user_id, args)
    /\ calls' = calls + 1
    /\ UNCHANGED <<accessFrame, outbox, dialog, request, result, user_data, group_chats,
                   accounts, allowed_users>>

UserManageCallback ==
    /\ calls < MaxEvents
    /\ \E user_id \in Users, parts \in UserMenuData :
          /\ user_manage_callback(user_id, parts)
          /\ event' = Event("user_manage_callback", user_id, parts)
    /\ calls' = calls + 1
    /\ UNCHANGED <<accessFrame, outbox, access_requests, request, result, user_data,
                   group_chats, accounts>>

AccessText ==
    /\ calls < MaxEvents
    /\ \E user_id \in Users, text \in IdTexts :
          /\ profile_handler(user_id, "private", text)
          /\ event' = Event("profile_handler", user_id, text)
    /\ calls' = calls + 1
    /\ UNCHANGED <<accessFrame, outbox, access_requests>>

NextAccess ==
    \/ StartHandler \/ HelpHandler \/ RegisterCallback \/ ApproveHandler
    \/ DenyHandler \/ UserManageCallback \/ AccessText

SpecAccess == InitAccess /\ [][NextAccess]_vars

----------------------------------------------------------------------------
(* SpecProfile: a user adds accounts, button by button and text by text    *)

\* What the handlers of the conversation leave alone.
profileFrame == <<settings, now, calls, crcVars, amountVars, imageVars, cryptoVars,
                  account_call, admin_users, access_requests, outbox>>

\* data.split(':', 2) of the callback data of a bank button, of 'bank::'
\* and of 'bank:Vietcombank'.
BankData == { <<"bank", S_Vietcombank, S_970436>>,
              <<"bank", <<>>, <<>>>>,
              <<"bank", S_Vietcombank>> }
BackTargets == {"bank", "account_no", "menu", "home"}

\* The texts: an account number, a name, and a blank.
ProfileTexts == {S_0123456789, S_NGUYEN_VAN_A, <<" ">>}

\* After init_db, for an admin who has no account yet.
InitProfile ==
    /\ admin_users = {Admin}
    /\ allowed_users = {}
    /\ access_requests = {}
    /\ outbox = <<>>
    /\ DialogIdle
    /\ event = NoCall
    /\ BotIdle
    /\ group_chats = {}
    /\ account_call = NoCall
    /\ EncoderIdle /\ CrcIdle /\ AmountIdle /\ ImageIdle /\ CryptoIdle

BankManageCallback ==
    /\ \E action \in {"add", "list"} :
          /\ bank_manage_callback(Admin, action)
          /\ event' = Event("bank_manage_callback", Admin, action)
    /\ UNCHANGED <<profileFrame, request, result, user_data, group_chats, allowed_users,
                   accounts>>

BankCallback ==
    /\ \E parts \in BankData :
          /\ bank_callback(Admin, parts)
          /\ event' = Event("bank_callback", Admin, parts)
    /\ UNCHANGED <<profileFrame, request, result, user_data, group_chats, allowed_users,
                   accounts>>

BackCallback ==
    /\ \E target \in BackTargets :
          /\ back_callback(Admin, target)
          /\ event' = Event("back_callback", Admin, target)
    /\ UNCHANGED <<profileFrame, request, result, user_data, group_chats, allowed_users,
                   accounts>>

ProfileText ==
    /\ Len(accounts) <= ACCOUNT_LIMIT
    /\ \E text \in ProfileTexts, chat_type \in {"private", "supergroup"} :
          /\ profile_handler(Admin, chat_type, text)
          /\ event' = Event("profile_handler", Admin, text)
    /\ UNCHANGED profileFrame

NextProfile == BankManageCallback \/ BankCallback \/ BackCallback \/ ProfileText

SpecProfile == InitProfile /\ [][NextProfile]_vars

----------------------------------------------------------------------------
(* SpecMenu: a user with an account walks through the menus, goes back,    *)
(* and types                                                               *)

S_100000_an_trua == S_100000 \o <<" ">> \o S_an_trua

\* The texts: an amount with a purpose, an id, and a blank.
MenuTexts == {S_100000_an_trua, <<"2">>, <<" ">>}

InitMenu ==
    /\ admin_users = {Admin}
    /\ allowed_users = {}
    /\ access_requests = {}
    /\ outbox = <<>>
    /\ DialogIdle
    /\ event = NoCall
    /\ accounts = <<GoodRow>>
    /\ settings = [DEFAULT_BANK_BIN |-> <<>>, DEFAULT_ACCOUNT_NO |-> <<>>, DEBUG |-> FALSE,
                   QR_PANEL_X |-> <<>>, QR_PANEL_Y |-> <<>>, QR_SIZE |-> <<>>,
                   BG_IMAGE_PATH |-> S_bg_png]
    /\ user_data = [user_id \in Users |-> EmptyUserData]
    /\ replies = <<>>
    /\ now = 0
    /\ calls = 0
    /\ group_chats = {}
    /\ account_call = NoCall
    /\ EncoderIdle /\ CrcIdle /\ AmountIdle /\ ImageIdle /\ CryptoIdle

MenuCallback ==
    /\ \E action \in {"qr", "qr:normal", "qr:bill", "users"} :
          /\ menu_callback(Admin, action)
          /\ event' = Event("menu_callback", Admin, action)
    /\ UNCHANGED <<profileFrame, request, result, user_data, group_chats, allowed_users,
                   accounts>>

GroupManageCallback ==
    /\ \E parts \in { <<"group", "add">>, <<"group", "list">>,
                      <<"group", "set", <<"2">>>>, <<"group", "remove", <<"2">>>> } :
          /\ group_manage_callback(Admin, parts)
          /\ event' = Event("group_manage_callback", Admin, parts)
    /\ UNCHANGED <<profileFrame, request, result, user_data, allowed_users, accounts>>

UserMenuCallback ==
    /\ \E parts \in UserMenuData :
          /\ user_manage_callback(Admin, parts)
          /\ event' = Event("user_manage_callback", Admin, parts)
    /\ UNCHANGED <<profileFrame, request, result, user_data, group_chats, accounts>>

MenuBack ==
    /\ \E target \in {"menu", "home"} :
          /\ back_callback(Admin, target)
          /\ event' = Event("back_callback", Admin, target)
    /\ UNCHANGED <<profileFrame, request, result, user_data, group_chats, allowed_users,
                   accounts>>

MenuText ==
    /\ \E text \in MenuTexts :
          /\ profile_handler(Admin, "private", text)
          /\ event' = Event("profile_handler", Admin, text)
    /\ UNCHANGED profileFrame

NextMenu ==
    MenuCallback \/ GroupManageCallback \/ UserMenuCallback \/ MenuBack \/ MenuText

SpecMenu == InitMenu /\ [][NextMenu]_vars

----------------------------------------------------------------------------
(* SpecQr: a user asks for a QR, time passes, and the user presses the     *)
(* buttons under 'Ban muon gui QR o dau?'                                  *)

\* The seconds a pending QR can be sent.
QR_LIFETIME == 300

\* context.bot.send_photo and context.bot.send_message of a payload.
Photo(chat_id, payload) == [kind |-> "photo", chat_id |-> chat_id, payload |-> payload]
PayloadMessage(chat_id, payload) ==
    [kind |-> "message", chat_id |-> chat_id, payload |-> payload]

\* The photos among what was sent.
Photos(box) == Cardinality({i \in 1..Len(box) : box[i].kind = "photo"})

MSG_NO_QR == Msg("Khong tim thay thong tin QR. Hay go /qr lai.")
MSG_QR_EXPIRED == Msg("QR da het han. Hay go /qr lai.")
MSG_NO_GROUP == Msg("Chua co group. Dung /addgroup <chat_id> de them.")
MSG_QR_FAILED == Msg("Khong tao duoc QR:")

\* The test with >= in the place of >.
qr_expired_at_the_limit(pending) == now - pending.created_at >= QR_LIFETIME

\* time.time() - float(pending.get('created_at', 0)) > 300
qr_expired(pending) == now - pending.created_at > QR_LIFETIME

\* The handler without its finally clause.
qr_callback_without_finally(user_id) == UNCHANGED user_data

\* finally: context.user_data.pop('qr_pending', None)
qr_callback_finally(user_id) ==
    user_data' = [user_data EXCEPT ![user_id].qr_pending = NoPending]

\* build_qr_background_image raises FileNotFoundError when there is no
\* file at BG_IMAGE_PATH, and returns the image when there is one.
build_qr_background_image_raises == template = NoImage

\* qr_callback; destination is the callback data after 'qr:'. The chat of
\* a private conversation has the id of the user. A send_photo or
\* send_message can fail, which the except clause reports.
qr_callback(user_id, destination) ==
    LET pending == user_data[user_id].qr_pending
    IN IF ~is_allowed_user(user_id)
       THEN /\ replies' = <<MSG_NOT_ALLOWED>>
            /\ UNCHANGED <<user_data, outbox>>
       ELSE IF ~pending.present
       THEN /\ replies' = <<MSG_NO_QR>>
            /\ UNCHANGED <<user_data, outbox>>
       ELSE IF qr_expired(pending)
       THEN /\ user_data' = [user_data EXCEPT ![user_id].qr_pending = NoPending]
            /\ replies' = <<MSG_QR_EXPIRED>>
            /\ UNCHANGED outbox
       ELSE /\ qr_callback_finally(user_id)
            /\ IF build_qr_background_image_raises
               THEN /\ replies' = <<MSG_QR_FAILED>>
                    /\ UNCHANGED outbox
               ELSE IF destination = "group"
               THEN \E group_id \in get_default_group_id(user_id) :
                       IF group_id.is_none \/ group_id.value = 0
                       THEN /\ replies' = <<MSG_NO_GROUP>>
                            /\ UNCHANGED outbox
                       ELSE \/ /\ outbox' = Append(outbox,
                                                   Photo(group_id.value, pending.payload))
                               /\ replies' = <<Msg("Da gui QR vao group.")>>
                            \/ /\ replies' = <<MSG_QR_FAILED>>
                               /\ UNCHANGED outbox
               ELSE IF destination = "private"
               THEN \/ /\ replies' = <<MSG_QR_FAILED>>
                       /\ UNCHANGED outbox
                    \/ /\ ~is_debug_enabled
                       /\ outbox' = Append(outbox, Photo(user_id, pending.payload))
                       /\ replies' = <<Msg("Da gui QR vao chat rieng.")>>
                    \/ /\ is_debug_enabled
                       /\ outbox' = outbox \o <<Photo(user_id, pending.payload),
                                                PayloadMessage(user_id, pending.payload)>>
                       /\ replies' = <<Msg("Da gui QR vao chat rieng.")>>
                    \/ /\ is_debug_enabled
                       /\ outbox' = Append(outbox, Photo(user_id, pending.payload))
                       /\ replies' = <<MSG_QR_FAILED>>
               ELSE /\ replies' = <<Msg("Lua chon khong hop le.")>>
                    /\ UNCHANGED outbox

\* What the handlers of this part leave alone.
qrFrame == <<accounts, settings, crcVars, amountVars, imageVars, cryptoVars, dbVars,
             accessVars, dialog>>

\* A user who is allowed and has an account; with and without the template
\* file, a default group, and DEBUG.
InitQr ==
    /\ admin_users = {}
    /\ allowed_users = {BotUser}
    /\ access_requests = {}
    /\ accounts = <<GoodRow>>
    /\ settings \in [DEFAULT_BANK_BIN : {<<>>}, DEFAULT_ACCOUNT_NO : {<<>>},
                     DEBUG : BOOLEAN,
                     QR_PANEL_X : {<<>>}, QR_PANEL_Y : {<<>>}, QR_SIZE : {<<>>},
                     BG_IMAGE_PATH : {S_bg_png}]
    /\ template \in {Image(400, 400, <<>>), NoImage}
    /\ line_sizes = << <<60, 11>>, <<72, 11>>, <<60, 11>> >>
    /\ image = NotBuilt
    /\ builds = 0
    /\ group_chats \in { {}, {GroupRow(BotUser, -100, TRUE, <<>>, 0)} }
    /\ account_call = NoCall
    /\ user_data = [user_id \in Users |-> EmptyUserData]
    /\ replies = <<>>
    /\ now = 0
    /\ calls = 0
    /\ outbox = <<>>
    /\ DialogIdle
    /\ event = NoCall
    /\ EncoderIdle /\ CrcIdle /\ AmountIdle /\ CryptoIdle

QrRequest ==
    /\ calls < MaxCalls
    /\ create_qr_request(BotUser, S_100000, S_an_trua, None, None)
    /\ event' = Event("create_qr_request", BotUser, S_100000)
    /\ calls' = calls + 1
    /\ UNCHANGED <<qrFrame, now, outbox>>

QrCallback ==
    /\ Len(outbox) <= 2 * MaxCalls
    /\ \E user_id \in Users, destination \in {"group", "private", "public"} :
          /\ qr_callback(user_id, destination)
          /\ event' = Event("qr_callback", user_id, destination)
    /\ UNCHANGED <<qrFrame, now, calls, encoderVars>>

QrTick ==
    /\ now < MaxTime
    /\ now' = now + 1
    /\ event' = NoCall
    /\ UNCHANGED <<qrFrame, user_data, replies, calls, encoderVars, outbox>>

\* The lifetime of a pending QR passes.
Wait ==
    /\ now <= MaxTime
    /\ now' = now + QR_LIFETIME
    /\ event' = NoCall
    /\ UNCHANGED <<qrFrame, user_data, replies, calls, encoderVars, outbox>>

NextQr == QrRequest \/ QrCallback \/ QrTick \/ Wait

SpecQr == InitQr /\ [][NextQr]_vars

----------------------------------------------------------------------------
(* SpecBill: a user enters a bill total, chooses the number of people and  *)
(* confirms                                                                *)

MaxPhotos == 2

\* a // b and a % b of Python for a >= 0 and b # 0: the quotient is
\* rounded down, the remainder has the sign of b.
py_floordiv(a, b) == IF b > 0 THEN a \div b ELSE 0 - ((a + (0 - b) - 1) \div (0 - b))
py_mod(a, b) == a - b * py_floordiv(a, b)

\* In the place of the messages: the exception a handler ended with and
\* nobody caught.
Unhandled(error) == [text |-> "", detail |-> error, payload |-> <<>>, buttons |-> <<>>]

MSG_NO_BILL == Msg("Khong tim thay thong tin bill. Hay go /bill lai.")
MSG_BILL_SENT == Msg("Da gui QR vao group.")

\* bill_callback; people_text is the callback data after 'bill:'.
bill_callback(user_id, people_text) ==
    LET people == int_of(people_text)
        total == dialog[user_id].bill_total
        note == dialog[user_id].bill_note
        per == py_floordiv(total.value, people.value)
        remainder == py_mod(total.value, people.value)
    IN IF ~is_allowed_user(user_id)
       THEN /\ replies' = <<MSG_NOT_ALLOWED>>
            /\ UNCHANGED dialog
       ELSE IF ~people.ok
       THEN /\ replies' = <<Msg("So nguoi khong hop le.")>>
            /\ UNCHANGED dialog
       ELSE IF total.is_none \/ total.value = 0
       THEN /\ replies' = <<MSG_NO_BILL>>
            /\ UNCHANGED dialog
       ELSE IF people.value = 0
       THEN /\ replies' = <<Unhandled("ZeroDivisionError")>>
            /\ UNCHANGED dialog
       ELSE IF per <= 0
       THEN /\ replies' = <<Msg("Tong tien qua nho de chia.")>>
            /\ UNCHANGED dialog
       ELSE /\ dialog' = [dialog EXCEPT ![user_id].bill_pending =
                             [present |-> TRUE, people |-> people.value, per |-> per,
                              remainder |-> remainder,
                              note |-> IF truthy(note) THEN note ELSE <<>>]]
            /\ replies' = <<MsgButtons("Xac nhan gui QR vao group?",
                                       <<"billconfirm:yes", "billconfirm:no">>)>>

\* bill_confirm_callback; answer is the callback data after 'billconfirm:'.
\* A pending bill that is absent, {} or without people or per counts as
\* people = 0. The photo goes to the default group; send_photo, and with
\* DEBUG send_message, can fail, which nobody catches.
bill_confirm_callback(user_id, answer) ==
    LET pending == dialog[user_id].bill_pending
        default_account == get_default_account(user_id)
        built == build_vietqr_payload(default_account.bank_bin,
                    default_account.account_no, default_account.account_name,
                    str_of(pending.per), pending.note)
    IN IF ~is_allowed_user(user_id)
       THEN /\ replies' = <<MSG_NOT_ALLOWED>>
            /\ UNCHANGED <<dialog, outbox>>
       ELSE IF answer = "no"
       THEN /\ dialog' = [dialog EXCEPT ![user_id].bill_pending = NoPending]
            /\ replies' = <<Msg("Da huy.")>>
            /\ UNCHANGED outbox
       ELSE IF answer # "yes"
       THEN /\ replies' = <<>>
            /\ UNCHANGED <<dialog, outbox>>
       ELSE IF ~pending.present \/ pending.people <= 0 \/ pending.per <= 0
       THEN /\ replies' = <<MSG_NO_BILL>>
            /\ UNCHANGED <<dialog, outbox>>
       ELSE IF default_account = NoAccount
       THEN /\ replies' = <<MSG_NO_ACCOUNT>>
            /\ UNCHANGED <<dialog, outbox>>
       ELSE IF ~truthy(default_account.account_name) \/ ~truthy(default_account.bank_name)
       THEN /\ replies' = <<MSG_NO_NAME>>
            /\ UNCHANGED <<dialog, outbox>>
       ELSE \E group_id \in get_default_group_id(user_id) :
               IF group_id.is_none \/ group_id.value = 0
               THEN /\ replies' = <<MSG_NO_GROUP>>
                    /\ UNCHANGED <<dialog, outbox>>
               ELSE IF built.kind = "raised" \/ build_qr_background_image_raises
               THEN /\ replies' = <<MSG_QR_FAILED>>
                    /\ UNCHANGED <<dialog, outbox>>
               ELSE \/ /\ replies' = <<Unhandled("TelegramError")>>
                       /\ UNCHANGED <<dialog, outbox>>
                    \/ /\ is_debug_enabled
                       /\ outbox' = Append(outbox, Photo(group_id.value, built.payload))
                       /\ replies' = <<Unhandled("TelegramError")>>
                       /\ UNCHANGED dialog
                    \/ /\ outbox' = Append(outbox, Photo(group_id.value, built.payload))
                                       \o (IF is_debug_enabled
                                           THEN <<PayloadMessage(user_id, built.payload)>>
                                           ELSE <<>>)
                       /\ dialog' = [dialog EXCEPT ![user_id].bill_pending = NoPending]
                       /\ replies' = <<MSG_BILL_SENT>>

\* What the handlers of this part leave alone.
billFrame == <<accounts, settings, now, calls, crcVars, amountVars, imageVars, cryptoVars,
               dbVars, accessVars, user_data, encoderVars>>

\* The texts after 'menu:qr:bill', and what follows 'bill:' in a callback.
BillTexts == {<<"1", "0", "0", " ">> \o S_an_trua, <<"7">>, <<" ">>}
PeopleTexts == {<<"2">>, <<"8">>, <<"0">>, <<"-", "3">>, <<"x">>}

\* A user who is allowed. Either the user has an account and a default
\* group and the template file is there, with DEBUG on or off; or one of
\* them is missing (no account, an account whose bank BIN is lost, no
\* group, no template file).
InitBill ==
    /\ admin_users = {}
    /\ allowed_users = {BotUser}
    /\ access_requests = {}
    /\ accounts \in {<<>>, <<GoodRow>>, <<[GoodRow EXCEPT !.bank_bin = <<>>]>>}
    /\ settings \in [DEFAULT_BANK_BIN : {<<>>}, DEFAULT_ACCOUNT_NO : {<<>>},
                     DEBUG : BOOLEAN,
                     QR_PANEL_X : {<<>>}, QR_PANEL_Y : {<<>>}, QR_SIZE : {<<>>},
                     BG_IMAGE_PATH : {S_bg_png}]
    /\ template \in {Image(400, 400, <<>>), NoImage}
    /\ line_sizes = << <<60, 11>>, <<72, 11>>, <<60, 11>> >>
    /\ image = NotBuilt
    /\ builds = 0
    /\ group_chats \in { {}, {GroupRow(BotUser, -100, TRUE, <<>>, 0)} }
    /\ LET lacks == (IF accounts # <<GoodRow>> THEN 1 ELSE 0)
                        + (IF template = NoImage THEN 1 ELSE 0)
                        + (IF group_chats = {} THEN 1 ELSE 0)
       IN lacks = 0 \/ (lacks = 1 /\ ~settings.DEBUG)
    /\ account_call = NoCall
    /\ user_data = [user_id \in Users |-> EmptyUserData]
    /\ replies = <<>>
    /\ now = 0
    /\ calls = 0
    /\ outbox = <<>>
    /\ DialogIdle
    /\ event = NoCall
    /\ EncoderIdle /\ CrcIdle /\ AmountIdle /\ CryptoIdle

BillMenu ==
    /\ menu_callback(BotUser, "qr:bill")
    /\ event' = Event("menu_callback", BotUser, "qr:bill")
    /\ UNCHANGED <<billFrame, outbox>>

BillText ==
    /\ dialog[BotUser].menu_state = "bill"
    /\ \E text \in BillTexts :
          /\ profile_handler(BotUser, "private", text)
          /\ event' = Event("profile_handler", BotUser, text)
    /\ UNCHANGED <<settings, now, calls, crcVars, amountVars, imageVars, cryptoVars,
                   account_call, admin_users, access_requests, outbox>>

BillCallback ==
    /\ \E people_text \in PeopleTexts :
          /\ bill_callback(BotUser, people_text)
          /\ event' = Event("bill_callback", BotUser, people_text)
    /\ UNCHANGED <<billFrame, outbox>>

BillConfirmCallback ==
    /\ Photos(outbox) < MaxPhotos
    /\ \E answer \in {"yes", "no", "later"} :
          /\ bill_confirm_callback(BotUser, answer)
          /\ event' = Event("bill_confirm_callback", BotUser, answer)
    /\ UNCHANGED billFrame

NextBill == BillMenu \/ BillText \/ BillCallback \/ BillConfirmCallback

SpecBill == InitBill /\ [][NextBill]_vars

----------------------------------------------------------------------------
(* SpecCrypto: encrypt_value, decrypt_value of the result, and             *)
(* encrypt_value of the result, as migrate_encrypted_data applies it again *)

MaxCryptoLen == 4
CryptoAlphabet == {"e", "n", "c", ":", "a"}

\* The values: short texts, among them 'enc:' and texts that start with
\* it, and a value stored encrypted before.
CryptoInputs ==
    UNION {[1..n -> CryptoAlphabet] : n \in 0..MaxCryptoLen}
        \cup {S_enc \o <<FernetVersion, "iv1", "a">>,
              S_enc \o <<"a", "a">>}

InitCrypto ==
    /\ plain \in CryptoInputs
    /\ fernet_iv \in FernetIVs
    /\ crypt = NotEncrypted
    /\ EncoderIdle /\ CrcIdle /\ BotIdle /\ AmountIdle /\ ImageIdle /\ DbIdle
    /\ AccessIdle /\ outbox = <<>> /\ DialogIdle /\ event = NoCall

CallEncrypt ==
    /\ ~crypt.called
    /\ crypt' = [called |-> TRUE, encrypted |-> encrypt_value(plain),
                 decrypted |-> None, reencrypted |-> None]
    /\ fernet_iv' \in FernetIVs
    /\ UNCHANGED <<plain, encoderVars, crcVars, botVars, amountVars, imageVars, dbVars,
                   accessVars, outbox, dialog, event>>

CallDecrypt ==
    /\ crypt.called /\ crypt.decrypted = None
    /\ crypt' = [crypt EXCEPT !.decrypted = decrypt_value(crypt.encrypted)]
    /\ UNCHANGED <<plain, fernet_iv, encoderVars, crcVars, botVars, amountVars, imageVars,
                   dbVars, accessVars, outbox, dialog, event>>

CallEncryptAgain ==
    /\ crypt.called /\ crypt.reencrypted = None
    /\ crypt' = [crypt EXCEPT !.reencrypted = encrypt_value(crypt.encrypted)]
    /\ fernet_iv' \in FernetIVs
    /\ UNCHANGED <<plain, encoderVars, crcVars, botVars, amountVars, imageVars, dbVars,
                   accessVars, outbox, dialog, event>>

NextCrypto == CallEncrypt \/ CallDecrypt \/ CallEncryptAgain

SpecCrypto == InitCrypto /\ [][NextCrypto]_vars

----------------------------------------------------------------------------
(* The vocabulary of the properties                                        *)

\* build_vietqr_payload was called / returned a payload / raised.
Called == result.kind # "none"
Accepted == result.kind = "returned"
Rejected == result.kind = "raised"

\* The request of Scenario A of the specification's testable properties.
ScenarioA ==
    [bank_bin |-> S_970436, account_no |-> S_0123456789,
     account_name |-> S_NGUYEN_VAN_A, amount |-> S_100000, purpose |-> S_an_trua]

\* The tlv calls made for the request in hand.
RequestCalls ==
    tlv_calls(request.bank_bin, request.account_no, request.account_name,
              request.amount, request.purpose)

\* The length marker of a field as tlv wrote it: what stands between the
\* two characters of the tag and the value.
MarkerOf(f) ==
    LET enc == tlv(f.tag, f.value)
    IN SubSeq(enc, Len(f.tag) + 1, Len(enc) - Len(f.value))

IsDecimal(s) == \A i \in 1..Len(s) : s[i] \in Range(DecDigits)

\* The number a string of decimal digits writes.
RECURSIVE DecimalValue(_)
DecimalValue(s) ==
    IF s = <<>> THEN 0
    ELSE 10 * DecimalValue(SubSeq(s, 1, Len(s) - 1)) + (IndexOf(DecDigits, s[Len(s)]) - 1)

\* The number a string of hexadecimal digits writes.
RECURSIVE HexValue(_)
HexValue(s) ==
    IF s = <<>> THEN 0
    ELSE 16 * HexValue(SubSeq(s, 1, Len(s) - 1)) + (IndexOf(HexDigits, s[Len(s)]) - 1)

\* The last n characters of s, and s without them.
LastChars(s, n) == SubSeq(s, Len(s) - n + 1, Len(s))
WithoutLast(s, n) == SubSeq(s, 1, Len(s) - n)

----------------------------------------------------------------------------
(* C1 - C5                                                                 *)

\* C1: every payload build_vietqr_payload returns ends with '6304' and 4
\* uppercase hexadecimal digits, and crc16_ccitt_false over everything before
\* those 4 digits (up to and including '6304') gives exactly those digits.
C1_ChecksumRoundTrip ==
    Accepted =>
        LET p == result.payload
        IN /\ Len(p) >= 8
           /\ SubSeq(p, Len(p) - 7, Len(p) - 4) = S_6304
           /\ \A i \in (Len(p) - 3)..Len(p) : p[i] \in Range(HexDigits)
           /\ crc16_ccitt_false(WithoutLast(p, 4)) = LastChars(p, 4)

\* Scenario A was built, and its payload ends with 6304 and the CRC 1800.
C1_Witness ==
    /\ Accepted
    /\ request = ScenarioA
    /\ LastChars(result.payload, 8) = S_6304 \o <<"1", "8", "0", "0">>

\* C2: for every valid request, every field put into the payload, top-level
\* or nested, carries a length marker of exactly two decimal digits.
C2_TwoDigitMarkers ==
    Accepted =>
        \A i \in 1..Len(RequestCalls) :
            /\ Len(MarkerOf(RequestCalls[i])) = 2
            /\ IsDecimal(MarkerOf(RequestCalls[i]))

\* C3: for every valid request, the decimal number in each field's length
\* marker is the number of characters of the field's value in the payload;
\* the value of a nested field (38, 38/01, 62) is the concatenation of its
\* encoded sub-fields.
C3_MarkerIsLengthOfValue ==
    Accepted =>
        LET calls_made == RequestCalls
            Children(path) ==
                {i \in 1..Len(calls_made) : calls_made[i].container = path}
            \* the encoded fields of a container, in the order of the calls
            RECURSIVE Encoded(_, _)
            Encoded(path, i) ==
                IF i > Len(calls_made) THEN <<>>
                ELSE (IF calls_made[i].container = path
                      THEN tlv(calls_made[i].tag, calls_made[i].value)
                      ELSE <<>>) \o Encoded(path, i + 1)
        IN /\ \A i \in 1..Len(calls_made) :
                /\ IsDecimal(MarkerOf(calls_made[i]))
                /\ DecimalValue(MarkerOf(calls_made[i])) = Len(calls_made[i].value)
           /\ \A i \in 1..Len(calls_made) :
                /\ (calls_made[i].container = "" /\ calls_made[i].tag = <<"3", "8">>)
                      => calls_made[i].value = Encoded("38", 1)
                /\ (calls_made[i].container = "38" /\ calls_made[i].tag = <<"0", "1">>)
                      => calls_made[i].value = Encoded("38/01", 1)
                /\ (calls_made[i].container = "" /\ calls_made[i].tag = <<"6", "2">>)
                      => calls_made[i].value = Encoded("62", 1)
           /\ WithoutLast(result.payload, 8) = Encoded("", 1)

\* A purpose of 100 characters, clipped to 99, went into the payload: the
\* tag-62 container around it has a value of 103 characters.
C3_Witness ==
    /\ Accepted
    /\ request.purpose = Rep("x", 100)
    /\ \E i \in 1..Len(RequestCalls) :
          /\ RequestCalls[i].tag = <<"6", "2">>
          /\ Len(RequestCalls[i].value) = 103

\* C4: whenever a field value is longer than 99 characters after the
\* clipping of name and purpose, build_vietqr_payload fails with an error
\* instead of returning a payload.
C4_OverlongValueIsRejected ==
    (Called /\ \E i \in 1..Len(RequestCalls) : Len(RequestCalls[i].value) > 99)
        => Rejected

\* A bit-serial reference of CRC-16/CCITT-FALSE: the register starts at
\* 0xFFFF; for each message bit, most significant first, the register is
\* shifted left by one and the polynomial 0x1021 (bits 12, 5 and 0) is
\* XORed in when the bit shifted out differs from the message bit.  A
\* character gives the 8 bits of its code point that reach the register.
FlipBit(x, k) == IF (x \div (2 ^ k)) % 2 = 1 THEN x - (2 ^ k) ELSE x + (2 ^ k)

RefShiftIn(reg, bit) ==
    LET shifted == (reg % 32768) * 2
    IN IF reg \div 32768 # bit
       THEN FlipBit(FlipBit(FlipBit(shifted, 0), 5), 12)
       ELSE shifted

RefByte[reg \in Nat, byte \in Nat, k \in Nat] ==
    LET next == RefShiftIn(reg, (byte \div (2 ^ k)) % 2)
    IN IF k = 0 THEN next ELSE RefByte[next, byte, k - 1]

RefCrc[s \in Seq(Chars)] ==
    IF s = <<>> THEN 65535
    ELSE RefByte[RefCrc[WithoutLast(s, 1)], ord(s[Len(s)]) % 256, 7]

\* C5: for every input string crc16_ccitt_false returns exactly 4 uppercase
\* hexadecimal digits, which write the CRC-16/CCITT-FALSE of the characters
\* as the bit-serial reference computes it; '123456789' gives '29B1'.
C5_CrcMatchesReference ==
    crc_out # None =>
        /\ Len(crc_out) = 4
        /\ \A i \in 1..4 : crc_out[i] \in Range(HexDigits)
        /\ HexValue(crc_out) = RefCrc[data]
        /\ (data = S_123456789 => crc_out = <<"2", "9", "B", "1">>)

\* The check string '123456789' went through and gave '29B1'.
C5_Witness == data = S_123456789 /\ crc_out = <<"2", "9", "B", "1">>

----------------------------------------------------------------------------
(* C6 - C7, C9 - C10                                                       *)

NamesBankField(message) == message \in {ERR_MISSING, ERR_BANK}
NamesAccountField(message) == message \in {ERR_MISSING, ERR_ACCOUNT}

\* A supplied value that consists of decimal digits 0-9 only.
AllDecimalDigits(x) == x # None /\ Len(x) > 0 /\ IsDecimal(x)

Unparseable(amount) ==
    LET kept == SelectSeq(amount, LAMBDA c : c \in Range(DecDigits) \cup {"."})
        dots == {i \in 1..Len(kept) : kept[i] = "."}
    IN \/ Cardinality(dots) > 1
       \/ \E i \in dots : Len(kept) - i > 2

\* C7: when the supplied amount is not empty and the normalizer cannot parse
\* it, build_vietqr_payload raises a validation error and returns no payload.
C7_UnparseableAmountIsRejected ==
    (Called /\ truthy(request.amount) /\ Unparseable(request.amount)) => Rejected

\* The top-level field that starts at a given offset of the payload.
FieldAt(p, offset, field) == SubSeq(p, offset + 1, offset + Len(field)) = field

\* Where the field after 00, 01, 38, 52 and 53 starts in the payload.
OffsetAfter53 ==
    Len(tlv(<<"0", "0">>, <<"0", "1">>)) + Len(tlv(<<"0", "1">>, <<"1", "1">>))
    + Len(tlv(<<"3", "8">>, merchant_info_of(beneficiary_of(
            clean_bank_of(request.bank_bin), clean_account_of(request.account_no)))))
    + Len(tlv(<<"5", "2">>, <<"0", "0", "0", "0">>)) + Len(tlv(<<"5", "3">>, <<"7", "0", "4">>))

\* C9: in every returned payload field 01 is 12 (dynamic) exactly if an
\* amount field 54 is present and 11 (static) exactly if none is; without an
\* amount from the caller the payload is static and has no field 54; with
\* amount 100000 it is dynamic and has the field 5406100000.
C9_InitiationMethodFollowsAmount ==
    Accepted =>
        LET p == result.payload
            dynamic == FieldAt(p, 6, <<"0", "1", "0", "2", "1", "2">>)
            static == FieldAt(p, 6, <<"0", "1", "0", "2", "1", "1">>)
            has54 == FieldAt(p, OffsetAfter53, <<"5", "4">>)
        IN /\ FieldAt(p, 0, <<"0", "0", "0", "2", "0", "1">>)
           /\ dynamic <=> has54
           /\ static <=> ~has54
           /\ ~truthy(request.amount) => (static /\ ~has54)
           /\ request.amount = S_100000 =>
                (dynamic /\ FieldAt(p, OffsetAfter53, <<"5", "4", "0", "6">> \o S_100000))

\* A payload without amount came back static, field 58 following field 53.
C9_Witness ==
    /\ Accepted
    /\ request.amount = <<>>
    /\ FieldAt(result.payload, 6, <<"0", "1", "0", "2", "1", "1">>)
    /\ FieldAt(result.payload, OffsetAfter53, <<"5", "8", "0", "2", "V", "N">>)

\* The tags of the top-level fields of the request in hand, in the order of
\* the payload, the checksum field 63 last.
TopLevelTags ==
    LET top == SelectSeq(RequestCalls, LAMBDA f : f.container = "")
    IN [i \in 1..Len(top) |-> top[i].tag] \o <<SubSeq(LastChars(result.payload, 8), 1, 2)>>

\* C10: in every returned payload the top-level fields come in the order 00,
\* 01, 38, 52, 53, 54, 58, 59, 60, 62, 63; 54 is missing exactly when no
\* amount was given and 62 exactly when the purpose is empty; every other tag
\* is there exactly once and 63 is last.
C10_FixedTagOrder ==
    Accepted =>
        TopLevelTags =
            <<<<"0", "0">>, <<"0", "1">>, <<"3", "8">>, <<"5", "2">>, <<"5", "3">>>>
            \o (IF truthy(request.amount) THEN <<<<"5", "4">>>> ELSE <<>>)
            \o <<<<"5", "8">>, <<"5", "9">>, <<"6", "0">>>>
            \o (IF truthy(request.purpose) THEN <<<<"6", "2">>>> ELSE <<>>)
            \o <<<<"6", "3">>>>

----------------------------------------------------------------------------
(* C8                                                                      *)

\* The send-destination choice: a message with the buttons qr:group and
\* qr:private.
OffersDestination(sent) ==
    \E i \in 1..Len(sent) : sent[i].buttons # <<>>

\* C8: when validation fails, build_vietqr_payload returns no payload, not
\* even a partial one, and create_qr_request leaves the user's qr_pending as
\* it was and does not offer the send-destination choice.
C8_FailedValidationChangesNothing ==
    [][(calls' = calls + 1 /\ result'.kind = "raised") =>
            /\ result'.payload = <<>>
            /\ user_data'[BotUser].qr_pending = user_data[BotUser].qr_pending
            /\ ~OffersDestination(replies')
            /\ replies' = <<MsgError(result'.message)>>]_vars

\* A QR stored at time 0 is still pending, as stored, after a later call at
\* time 1 failed validation for its bank identifier.
C8_Witness ==
    /\ calls = 2
    /\ now = 1
    /\ result = Raised(ERR_BANK)
    /\ replies = <<MsgError(ERR_BANK)>>
    /\ user_data[BotUser].qr_pending.present
    /\ user_data[BotUser].qr_pending.created_at = 0
    /\ user_data[BotUser].qr_pending.account_no = S_0123456789

----------------------------------------------------------------------------
(* C11 - C12                                                               *)

\* A field as it stands in a payload: the tag, the number of characters of
\* the value in decimal (two digits at least), and the value.
Framed(tag, value) ==
    LET n == Len(value)
        digits == IF n < 10 THEN <<"0", DecDigits[n + 1]>>
                  ELSE IF n < 100 THEN <<DecDigits[(n \div 10) + 1], DecDigits[(n % 10) + 1]>>
                  ELSE <<DecDigits[(n \div 100) + 1], DecDigits[((n \div 10) % 10) + 1],
                         DecDigits[(n % 10) + 1]>>
    IN tag \o digits \o value

\* The bank identifier and account number that passed validation.
ValidatedBank == SelectSeq(request.bank_bin, LAMBDA c : c # " ")
ValidatedAccount == SelectSeq(request.account_no, LAMBDA c : c # " ")

\* What field 38 has to carry for the request in hand.
ExpectedMerchantInfo ==
    Framed(<<"0", "0">>, S_A000000727)
    \o Framed(<<"0", "1">>, Framed(<<"0", "0">>, ValidatedBank)
                            \o Framed(<<"0", "1">>, ValidatedAccount))
    \o Framed(<<"0", "2">>, S_QRIBFTTA)

\* C11: in every returned payload field 38, which follows fields 00 and 01,
\* has as its value exactly sub-field 00 = 'A000000727', then sub-field 01 =
\* the encoded beneficiary (sub-field 00 = the validated bank identifier,
\* sub-field 01 = the validated account number), then sub-field 02 =
\* 'QRIBFTTA'; field 52 follows it.
C11_MerchantInfoLayout ==
    Accepted =>
        FieldAt(result.payload, 12,
                Framed(<<"3", "8">>, ExpectedMerchantInfo) \o <<"5", "2", "0", "4">>)

\* Scenario A came back with bank 970436 and account 0123456789 in field 38.
C11_Witness ==
    /\ Accepted
    /\ request = ScenarioA
    /\ FieldAt(result.payload, 12,
               <<"3", "8", "5", "4">>
               \o <<"0", "0", "1", "0">> \o S_A000000727
               \o <<"0", "1", "2", "4">>
               \o <<"0", "0", "0", "6">> \o S_970436
               \o <<"0", "1", "1", "0">> \o S_0123456789
               \o <<"0", "2", "0", "8">> \o S_QRIBFTTA)

\* The first n characters of a string.
FirstChars(s, n) == IF Len(s) <= n THEN s ELSE SubSeq(s, 1, n)

\* Where field 59 starts: after field 53, field 54 if there is one, and the
\* six characters of field 58.
OffsetOf59 ==
    LET p == result.payload
        after54 == IF FieldAt(p, OffsetAfter53, <<"5", "4">>)
                   THEN OffsetAfter53
                        + Len(Framed(<<"5", "4">>, normalize_amount(request.amount)))
                   ELSE OffsetAfter53
    IN after54 + 6

\* The name field 59 has to carry, and the fields from 59 to the end of the
\* payload without the checksum digits.
ExpectedName ==
    IF request.account_name = <<>> THEN S_NA ELSE FirstChars(request.account_name, 25)

ExpectedTail ==
    Framed(<<"5", "9">>, ExpectedName)
    \o Framed(<<"6", "0">>, S_HANOI)
    \o (IF request.purpose = <<>> THEN <<>>
        ELSE Framed(<<"6", "2">>, Framed(<<"0", "8">>, FirstChars(request.purpose, 99))))
    \o S_6304

\* C12: in every returned payload the value of field 59 is the first 25
\* characters of the account holder name, or 'NA' for an empty name, so
\* neither empty nor longer than 25; the purpose in 62/08 is the first 99
\* characters of the given purpose, and field 62 is absent exactly when the
\* purpose is empty.
C12_NameAndPurposeClipped ==
    Accepted =>
        LET p == result.payload
        IN /\ Len(ExpectedName) \in 1..25
           /\ FieldAt(p, OffsetOf59, ExpectedTail)
           /\ Len(p) = OffsetOf59 + Len(ExpectedTail) + 4

\* A name of 26 characters came back as the 25 of field 59, and a purpose
\* of 100 characters as the 99 of 62/08.
C12_Witness ==
    /\ Accepted
    /\ \/ /\ request.account_name = Rep("B", 26)
          /\ FieldAt(result.payload, OffsetOf59, <<"5", "9", "2", "5">> \o Rep("B", 25))
       \/ /\ request.purpose = Rep("x", 100)
          /\ request.account_name = <<>>
          /\ FieldAt(result.payload, OffsetOf59,
                     <<"5", "9", "0", "2", "N", "A">> \o Framed(<<"6", "0">>, S_HANOI)
                     \o <<"6", "2", "1", "0", "3", "0", "8", "9", "9">> \o Rep("x", 99))

----------------------------------------------------------------------------
(* C13 - C15                                                               *)

\* C13: normalize_amount is idempotent: for every input string, also one
\* with leading zeros, a leading or trailing dot, only zeros or no digits,
\* normalizing what normalize_amount returned returns it unchanged.
C13_NormalizeIsIdempotent ==
    renormalized # None => renormalized = normalized

\* '00.1' gave '.1', and '.1' gave '.1' again; '000' gave '0' twice.
C13_Witness ==
    \/ /\ given = <<"0", "0", ".", "1">>
       /\ normalized = <<".", "1">>
       /\ renormalized = <<".", "1">>
    \/ /\ given = <<"0", "0", "0">>
       /\ normalized = <<"0">>
       /\ renormalized = <<"0">>

\* The result for a string of digits and dots: no amount ('') when it has
\* more than one dot or more than 2 characters after the dot, else the
\* string without its leading zeros, or '0' if nothing is left of it.
CanonicalAmount(kept) ==
    LET dots == {i \in 1..Len(kept) : kept[i] = "."}
        lead == {i \in 1..Len(kept) : \A j \in 1..i : kept[j] = "0"}
        stripped == SubSeq(kept, Cardinality(lead) + 1, Len(kept))
    IN IF Cardinality(dots) > 1 \/ (\E i \in dots : Len(kept) - i > 2) THEN <<>>
       ELSE IF stripped = <<>> THEN <<"0">>
       ELSE stripped

\* C14 as stated: normalize_amount drops every character that is not one of
\* the decimal digits 0-9 or a dot, returns no amount exactly when more
\* than one dot remains or more than 2 digits follow the dot, and otherwise
\* the rest without the leading zeros of its integer part, or '0'.
C14_NormalizeAsStated ==
    normalized # None =>
        normalized = CanonicalAmount(
            SelectSeq(given, LAMBDA c : c \in Range(DecDigits) \cup {"."}))

\* C14 as amended: the characters kept are those str.isdigit accepts and
\* the dots, and no amount is returned also when none is kept.
C14_NormalizeKeepsIsdigit ==
    normalized # None =>
        LET kept == SelectSeq(given, LAMBDA c : isdigit_char(c) \/ c = ".")
        IN normalized = IF kept = <<>> THEN <<>> ELSE CanonicalAmount(kept)

\* 'a01.' gave '1.', and '.111', with 3 digits after the dot, no amount.
C14_Witness ==
    \/ given = <<"a", "0", "1", ".">> /\ normalized = <<"1", ".">>
    \/ given = <<".", "1", "1", "1">> /\ normalized = <<>>

\* A decimal string: digits 0-9 and at most one dot, at least one digit,
\* at most 2 digits after the dot.
IsDecimalAmount(v) ==
    LET dots == {i \in 1..Len(v) : v[i] = "."}
    IN /\ \A i \in 1..Len(v) : v[i] \in Range(DecDigits) \cup {"."}
       /\ \E i \in 1..Len(v) : v[i] \in Range(DecDigits)
       /\ Cardinality(dots) <= 1
       /\ \A i \in dots : Len(v) - i <= 2

\* C15: whenever a returned payload has an amount field 54 (after field 53,
\* before field 58), its value is a decimal string.
C15_AmountFieldIsDecimal ==
    Accepted =>
        LET p == result.payload
            digits(n) == IF n < 100 THEN 2 ELSE 3
            value(n) == SubSeq(p, OffsetAfter53 + 2 + digits(n) + 1,
                                  OffsetAfter53 + 2 + digits(n) + n)
        IN \A n \in 0..Len(p) :
              (/\ OffsetAfter53 + 2 + digits(n) + n + 6 <= Len(p)
               /\ FieldAt(p, OffsetAfter53,
                          Framed(<<"5", "4">>, value(n)) \o <<"5", "8", "0", "2", "V", "N">>))
                  => IsDecimalAmount(value(n))

----------------------------------------------------------------------------
(* C16 - C20                                                               *)

Built == image # NotBuilt /\ image.built

\* An override of the position that is configured: the setting is an int.
Configured(setting) == ~parse_optional_int(setting).is_none

\* C16: whatever the sizes of panel and background, the frame box and the
\* X/Y overrides, the panel is pasted at a position with
\* 0 <= x <= bgW - panelW and 0 <= y <= bgH - panelH.
C16_PanelInsideBackground ==
    Built =>
        /\ 0 <= image.x
        /\ image.x <= image.background.width - image.qr_panel.width
        /\ 0 <= image.y
        /\ image.y <= image.background.height - image.qr_panel.height

\* Where the frame box puts an axis: the panel centred in the box, then
\* the correction of -44 (x) or +39 (y).
FrameCentredX ==
    image.frame_bbox.left
    + Max(0, (Max(0, image.frame_bbox.right - image.frame_bbox.left)
              - image.qr_panel.width) \div 2) - 44
FrameCentredY ==
    image.frame_bbox.top
    + Max(0, (Max(0, image.frame_bbox.bottom - image.frame_bbox.top)
              - image.qr_panel.height) \div 2) + 39

\* C17: with a frame box detected and exactly one of the X/Y overrides
\* configured, the overridden axis has its configured value before the final
\* clamp, and the other axis the value computed from the frame box.
C17_OverriddenAxisKeepsItsValue ==
    (Built /\ image.frame_bbox.found) =>
        /\ (Configured(settings.QR_PANEL_X) /\ ~Configured(settings.QR_PANEL_Y)) =>
              /\ image.x_before = parse_optional_int(settings.QR_PANEL_X).value
              /\ image.y_before = FrameCentredY
        /\ (Configured(settings.QR_PANEL_Y) /\ ~Configured(settings.QR_PANEL_X)) =>
              /\ image.y_before = parse_optional_int(settings.QR_PANEL_Y).value
              /\ image.x_before = FrameCentredX

C19_ResizedCodeIsSquareOfAtLeast120 ==
    Built =>
        LET side == IF image.target_size > 120 THEN image.target_size ELSE 120
        IN /\ image.qr_img = [width |-> side, height |-> side]
           /\ image.qr_img.width >= 120
           /\ image.qr_panel.width >= image.qr_img.width + 32
           /\ image.qr_panel.height >= image.qr_img.height + 32

\* A target of -5 gave a code of 120 by 120, a target of 2000 one of 2000.
C19_Witness ==
    /\ Built
    /\ \/ image.target_size = -5 /\ image.qr_img = [width |-> 120, height |-> 120]
       \/ image.target_size = 2000 /\ image.qr_img = [width |-> 2000, height |-> 2000]

\* A pixel in the left 65% of the width and the bottom 75% of the height:
\* some part of the pixel's square lies left of 0.65 * width and below
\* 0.25 * height.
InScannedRegion(p, width, height) ==
    /\ 100 * p[1] < 65 * width
    /\ 100 * (p[2] + 1) > 25 * height

\* Two images of one size that agree on every pixel of that region.
SameInScannedRegion(a, b) ==
    /\ a.width = b.width
    /\ a.height = b.height
    /\ \A p \in DOMAIN a.painted \cup DOMAIN b.painted :
          InScannedRegion(p, a.width, a.height) => pixel(a, p[1], p[2]) = pixel(b, p[1], p[2])

\* C20: detect_frame_bbox depends only on the pixels in the left 65% of the
\* width and the bottom 75% of the height: two templates that differ only
\* outside that region give the same answer, box or no box.
C20_OnlyScannedRegionMatters ==
    [][(Built /\ builds' = builds + 1 /\ image'.built
        /\ SameInScannedRegion(image.background, image'.background))
            => image'.frame_bbox = image.frame_bbox]_vars

----------------------------------------------------------------------------
(* C21 - C24, C26 - C28                                                    *)

\* A pixel with at least one channel at or above 90.
IsBright(colour) == \E k \in 1..3 : colour[k] >= 90

\* The dark pixels of the scanned region of an image, the left 65% of its
\* width and the bottom 75% of its height.
DarkPixels(background) ==
    {p \in DOMAIN background.painted :
        /\ InScannedRegion(p, background.width, background.height)
        /\ ~IsBright(background.painted[p])}

\* C21: a box detect_frame_bbox returns is the bounding box of the dark
\* pixels of the scanned region moved inward by 10 on each side and has
\* minX < maxX and minY < maxY; when the dark pixels span no more than 20
\* in width or in height, so that the inset box would be empty, the result
\* is 'not found'.
C21_BoxIsInsetBoundingBox ==
    Built =>
        LET dark == DarkPixels(image.background)
            box == image.frame_bbox
        IN /\ box.found =>
                /\ dark # {}
                /\ \E p \in dark : p[1] = box.left - 10
                /\ \E p \in dark : p[1] = box.right + 10
                /\ \E p \in dark : p[2] = box.top - 10
                /\ \E p \in dark : p[2] = box.bottom + 10
                /\ \A p \in dark : /\ box.left - 10 <= p[1] /\ p[1] <= box.right + 10
                                   /\ box.top - 10 <= p[2] /\ p[2] <= box.bottom + 10
                /\ box.left < box.right
                /\ box.top < box.bottom
           /\ (\/ \A p, q \in dark : q[1] - p[1] <= 20
               \/ \A p, q \in dark : q[2] - p[2] <= 20) => ~box.found

\* C22: detect_frame_bbox returns 'not found' whenever every pixel of the
\* scanned region has a channel at or above 90, as in an all-white image.
C22_BrightImageHasNoBox ==
    Built =>
        ((\A p \in DOMAIN image.background.painted :
              InScannedRegion(p, image.background.width, image.background.height)
                  => IsBright(image.background.painted[p]))
            => image.frame_bbox = NoBox)

\* A template whose two coloured pixels each have one channel at 90 or more
\* gave no box.
C22_Witness ==
    /\ Built
    /\ image.background =
          Image(400, 400, (<<20, 120>> :> <<80, 80, 200>>) @@ (<<250, 390>> :> <<90, 0, 0>>))
    /\ image.frame_bbox = NoBox

\* C23: with a template, no frame box and no size or position override,
\* the call raises no error, asks for a code of 32% of the template's
\* smaller side, and has the panel at x = 24 and y = background height -
\* panel height - 24 before the clamp.
C23_DefaultsWithoutFrame ==
    /\ (builds > 0 /\ image # NotBuilt /\ ~image.built) => template = NoImage
    /\ (/\ Built
        /\ ~image.frame_bbox.found
        /\ strip(settings.QR_SIZE) = <<>>
        /\ ~Configured(settings.QR_PANEL_X)
        /\ ~Configured(settings.QR_PANEL_Y)) =>
            /\ 100 * image.target_size <= 32 * Min(image.background.width,
                                                   image.background.height)
            /\ 100 * (image.target_size + 1) > 32 * Min(image.background.width,
                                                        image.background.height)
            /\ image.x_before = 24
            /\ image.y_before = image.background.height - image.qr_panel.height - 24

\* The white 400 by 400 template: a code of 128 asked for, the panel of
\* height 209 at (24, 167).
C23_Witness ==
    /\ Built
    /\ image.background = Image(400, 400, <<>>)
    /\ settings.QR_SIZE = <<>> /\ settings.QR_PANEL_X = <<>> /\ settings.QR_PANEL_Y = <<>>
    /\ image.target_size = 128
    /\ image.qr_panel.height = 209
    /\ image.x_before = 24 /\ image.y_before = 167

\* s occurs in t.
Contains(t, s) ==
    \E i \in 0..(Len(t) - Len(s)) : SubSeq(t, i + 1, i + Len(s)) = s

\* C24: without a file at the configured template path the call fails with
\* an error whose message contains the path, before anything is detected,
\* generated or composed, and returns no image.
C24_MissingTemplateIsReported ==
    (builds > 0 /\ template = NoImage) =>
        /\ ~image.built
        /\ image.error = "FileNotFoundError"
        /\ Contains(image.message, settings.BG_IMAGE_PATH)
        /\ DOMAIN image = {"built", "error", "message"}

\* The call failed for the missing bg.png.
C24_Witness ==
    /\ builds > 0
    /\ template = NoImage
    /\ settings.BG_IMAGE_PATH = S_bg_png
    /\ image = Missing(S_bg_png)

\* C26: resolve_qr_size returns a numeric QR_SIZE before everything else;
\* without QR_SIZE and without a frame box 32% of the template's smaller
\* side; without QR_SIZE and with a frame box 81% of the smaller of
\* frame width - 2*16 - 2*12 and frame height - (8 + text height + 2*16)
\* - 2*12, each at least 0, and the 32% default when that is not positive.
\* A QR_SIZE that is no number keeps the frame out as well and gives the
\* 32% default.
C26_SizePriority ==
    Built =>
        LET box == image.frame_bbox
            side == Min(image.background.width, image.background.height)
            default_size == CHOOSE n \in 0..side : 100 * n <= 32 * side /\ 100 * (n + 1) > 32 * side
            heights == [i \in 1..3 |-> line_sizes[i][2]]
            text_height == heights[1] + heights[2] + heights[3] + 4 + 4
            room_w == Max(0, (box.right - box.left) - 2 * 16 - 2 * 12)
            room_h == Max(0, (box.bottom - box.top) - (8 + text_height + 2 * 16) - 2 * 12)
            room == Min(room_w, room_h)
            in_frame == CHOOSE n \in 0..room : 100 * n <= 81 * room /\ 100 * (n + 1) > 81 * room
        IN /\ int_of(settings.QR_SIZE).ok =>
                image.target_size = int_of(settings.QR_SIZE).value
           /\ (strip(settings.QR_SIZE) # <<>> /\ ~int_of(settings.QR_SIZE).ok) =>
                image.target_size = default_size
           /\ (strip(settings.QR_SIZE) = <<>> /\ ~box.found) =>
                image.target_size = default_size
           /\ (strip(settings.QR_SIZE) = <<>> /\ box.found) =>
                image.target_size = IF in_frame <= 0 THEN default_size ELSE in_frame

\* With the frame box (60, 260, 590, 740) on the template, QR_SIZE 300
\* gave 300.
C26_Witness ==
    /\ Built
    /\ image.frame_bbox = Box(60, 260, 590, 740)
    /\ settings.QR_SIZE = <<"3", "0", "0">>
    /\ image.target_size = 300

\* Without QR_SIZE, the narrow frame box (30, 130, 80, 380) leaves no room
\* and the default 128 came back.
C26_WitnessNoRoom ==
    /\ Built
    /\ image.frame_bbox = Box(30, 130, 80, 380)
    /\ settings.QR_SIZE = <<>>
    /\ image.target_size = 128

\* C27: with a frame box and neither position override configured, before
\* the clamp x = left + max(0, floor((right - left - panelW) / 2)) - 44 and
\* y = top + max(0, floor((bottom - top - panelH) / 2)) + 39, so a panel
\* larger than the frame starts at the frame's left or top edge before the
\* offset.
C27_FrameCentredPosition ==
    (/\ Built
     /\ image.frame_bbox.found
     /\ ~Configured(settings.QR_PANEL_X)
     /\ ~Configured(settings.QR_PANEL_Y)) =>
        LET box == image.frame_bbox
            slack_w == box.right - box.left - image.qr_panel.width
            slack_h == box.bottom - box.top - image.qr_panel.height
        IN /\ image.x_before = box.left + (IF slack_w >= 2 THEN slack_w \div 2 ELSE 0) - 44
           /\ image.y_before = box.top + (IF slack_h >= 2 THEN slack_h \div 2 ELSE 0) + 39
           /\ slack_w < 0 => image.x_before = box.left - 44
           /\ slack_h < 0 => image.y_before = box.top + 39

\* A panel 232 wide in the frame box (30, 130, 240, 380), 210 wide, stood
\* at x = 30 - 44 before the clamp.
C27_Witness ==
    /\ Built
    /\ image.frame_bbox = Box(30, 130, 240, 380)
    /\ settings.QR_PANEL_X = <<>> /\ settings.QR_PANEL_Y = <<>>
    /\ image.qr_panel.width = 232
    /\ image.x_before = -14

\* C28: the panel is max(code width, text width) + 32 wide and code height
\* + 8 + text height + 32 high, the text height being the line heights and
\* two gaps of 4; every line drawn starts below the code and ends above the
\* bottom padding of 16.
C28_PanelSizeAndLines ==
    Built =>
        LET panel == image.qr_panel
            widths == {line_sizes[i][1] : i \in 1..3}
            text_width == CHOOSE w \in widths : \A v \in widths : v <= w
            text_height == line_sizes[1][2] + line_sizes[2][2] + line_sizes[3][2] + 2 * 4
        IN /\ panel.width = Max(image.qr_img.width, text_width) + 32
           /\ panel.height = image.qr_img.height + 8 + text_height + 32
           /\ Len(panel.lines) = Cardinality({i \in 1..3 : line_sizes[i] # <<0, 0>>})
           /\ \A k \in 1..Len(panel.lines) :
                 /\ panel.lines[k].text_y >= panel.qr_y + image.qr_img.height
                 /\ panel.lines[k].text_y + panel.lines[k].line_height <= panel.height - 16

\* Two lines under a code of 128 in a panel 200 high: the first, 13 high,
\* at 152 and the second, 11 high, at 169, ending at 180 above the bottom
\* padding that starts at 184.
C28_Witness ==
    /\ Built
    /\ image.qr_img.height = 128
    /\ line_sizes = << <<0, 0>>, <<200, 13>>, <<60, 11>> >>
    /\ image.qr_panel.lines = << [text_y |-> 152, line_height |-> 13],
                                  [text_y |-> 169, line_height |-> 11] >>

----------------------------------------------------------------------------
(* C25                                                                     *)

\* C25: every payload build_vietqr_payload returns consists of ASCII
\* characters only (code points below 128), whatever account holder name
\* and purpose the request carries.
C25_PayloadIsAscii ==
    Accepted => \A i \in 1..Len(result.payload) : ord(result.payload[i]) < 128

----------------------------------------------------------------------------
(* C29, C30                                                                *)

\* C29: after any calls of add_group_chat, remove_group_chat and
\* set_default_group, for any users and chats, a user with a stored group
\* has exactly one group marked default, and get_default_group_id returns
\* a group for that user.
C29_ExactlyOneDefaultGroup ==
    \A user_id \in Users :
        GroupsOf(user_id) # {} =>
            /\ Cardinality({row \in GroupsOf(user_id) : row.is_default}) = 1
            /\ NoInt \notin get_default_group_id(user_id)

\* The accounts of a user marked default.
DefaultAccountsOf(rows, user_id) ==
    {i \in 1..Len(rows) : rows[i].user_id = user_id /\ rows[i].is_default}

\* C30: after any calls of save_account and set_default_account, for any
\* users and account ids, no user has more than one account marked default,
\* and a call for one user leaves the rows of every other user, their
\* default flags included, as they were.
C30_DefaultAccountsPerUser ==
    /\ [](\A user_id \in Users : Cardinality(DefaultAccountsOf(accounts, user_id)) <= 1)
    /\ [][account_call'.op # "none" =>
            /\ Len(accounts') >= Len(accounts)
            /\ \A i \in 1..Len(accounts) :
                  accounts[i].user_id # account_call'.user_id => accounts'[i] = accounts[i]
            /\ \A i \in (Len(accounts) + 1)..Len(accounts') :
                  accounts'[i].user_id = account_call'.user_id]_vars

\* User 1 chose account 2, which is the default account of user 2: it is
\* still the default of user 2 and of nobody else, and user 1, whose own
\* account is 1, has no default left.
C30_Witness ==
    /\ account_call = [op |-> "set_default_account", user_id |-> 1, account_id |-> 2]
    /\ Len(accounts) >= 2
    /\ accounts[1].user_id = 1 /\ ~accounts[1].is_default
    /\ accounts[2].user_id = 2 /\ accounts[2].is_default
    /\ DefaultAccountsOf(accounts, 1) = {}

----------------------------------------------------------------------------
(* C40                                                                     *)

\* C40 as stated: for every string v, decrypt_value(encrypt_value(v)) is v,
\* the empty string and strings that begin with 'enc:' included, and
\* encrypt_value(encrypt_value(v)) is encrypt_value(v).
C40_RoundTripForEveryString ==
    /\ (crypt.called /\ crypt.decrypted # None) => crypt.decrypted = plain
    /\ (crypt.called /\ crypt.reencrypted # None) => crypt.reencrypted = crypt.encrypted

\* C40: for every string v that does not begin with 'enc:', the empty
\* string included, decrypt_value(encrypt_value(v)) is v; and for every
\* string v, encrypt_value(encrypt_value(v)) is encrypt_value(v), so a value
\* that is stored encrypted is never encrypted again.
C40_RoundTripWithoutMarker ==
    /\ (crypt.called /\ crypt.decrypted # None /\ ~startswith(plain, S_enc))
            => crypt.decrypted = plain
    /\ (crypt.called /\ crypt.reencrypted # None) => crypt.reencrypted = crypt.encrypted

\* 'a' was encrypted to 'enc:' and a token, came back as 'a', and the
\* second encrypt_value, with other random bytes, left the value alone.
C40_Witness ==
    /\ plain = <<"a">>
    /\ crypt.called
    /\ crypt.encrypted = S_enc \o <<FernetVersion, IV0, "a">>
    /\ crypt.decrypted = <<"a">>
    /\ crypt.reencrypted = crypt.encrypted
    /\ fernet_iv = "iv1"

----------------------------------------------------------------------------
(* C31, C37: who becomes allowed, and who is told about a request          *)

\* C31: a user who is neither admin nor allowed enters allowed_users only
\* by what an admin does, /approve or the text after 'user:add'; nothing
\* the user sends makes the user allowed.
C31_OnlyAdminsAllowUsers ==
    [][\A user_id \in Users :
          (~is_allowed_user(user_id) /\ user_id \in allowed_users')
              => /\ is_admin_user(event'.user_id)
                 /\ event'.handler \in {"approve_handler", "profile_handler"}]_vars

\* The messages about the access request of a user that were sent.
NoticesAbout(box, user_id) ==
    Cardinality({i \in 1..Len(box) :
                    box[i].kind = "access_request" /\ box[i].about = user_id})

\* C37: while the access request of a user is stored, nothing is inserted
\* and no admin is told again; the admins are told, each at most once, by
\* the /start that stores the request; and a stored request is removed by
\* approve_handler, deny_handler and register_callback only.
C37_OneNoticePerPendingRequest ==
    [][\A user_id \in Users :
          /\ user_id \in access_requests
                => NoticesAbout(outbox', user_id) = NoticesAbout(outbox, user_id)
          /\ NoticesAbout(outbox', user_id) # NoticesAbout(outbox, user_id)
                => /\ user_id \notin access_requests
                   /\ user_id \in access_requests'
                   /\ event' = Event("start_handler", user_id, "no request stored")
                   /\ NoticesAbout(outbox', user_id) - NoticesAbout(outbox, user_id)
                         <= Cardinality(admin_users)
          /\ (user_id \in access_requests /\ user_id \notin access_requests')
                => event'.handler \in {"approve_handler", "deny_handler",
                                       "register_callback"}]_vars

\* A /start of the user whose request was stored and announced: there is
\* still the one message.
C37_Witness ==
    /\ event = Event("start_handler", Stranger, "request stored")
    /\ Stranger \in access_requests
    /\ NoticesAbout(outbox, Stranger) = 1

----------------------------------------------------------------------------
(* C32, C33, C36: the account conversation and the way back to the menu    *)

\* The rows of accounts that belong to a user.
AccountsOf(user_id) == {i \in 1..Len(accounts) : accounts[i].user_id = user_id}

\* C32: whatever buttons a user presses and whatever texts the user sends,
\* the user never has more than 5 accounts stored.
C32_AtMostFiveAccounts ==
    \A user_id \in Users : Cardinality(AccountsOf(user_id)) <= 5

\* The user has five accounts, went back to the bank list and chose a
\* bank: the choice is refused.
C32_Witness ==
    /\ Cardinality(AccountsOf(Admin)) = 5
    /\ event = Event("bank_callback", Admin, <<"bank", S_Vietcombank, S_970436>>)
    /\ replies = <<Msg("Da dat toi da 5 tai khoan.")>>
    /\ dialog[Admin].profile_state = Absent

\* C33: an account is saved only by a text that meets profile_state
\* 'account_name', the save clears profile_state and pending_account, and
\* every stored account has a bank name, a bank BIN, an account number of
\* at least six characters that are all digits, and a holder name.
C33_SavedAccountsAreComplete ==
    /\ [](\A i \in 1..Len(accounts) :
             /\ truthy(accounts[i].bank_name)
             /\ truthy(accounts[i].bank_bin)
             /\ isdigit(accounts[i].account_no)
             /\ Len(accounts[i].account_no) >= 6
             /\ truthy(accounts[i].account_name))
    /\ [][accounts' # accounts
             => /\ event'.handler = "profile_handler"
                /\ dialog[event'.user_id].profile_state = "account_name"
                /\ dialog'[event'.user_id].profile_state = Absent
                /\ dialog'[event'.user_id].pending_account = NoPending]_vars

\* C36: after 'back:menu' the user has no profile_state, no
\* pending_account and no menu_state, so that the next text is no input.
C36_BackToMenuForgetsEverything ==
    [][(event'.handler = "back_callback" /\ event'.input = "menu")
          => /\ dialog'[event'.user_id].profile_state = Absent
             /\ dialog'[event'.user_id].pending_account = NoPending
             /\ dialog'[event'.user_id].menu_state = Absent]_vars

----------------------------------------------------------------------------
(* C34, C35: the pending QR                                                *)

\* C34: a 'qr:' callback of an allowed user leaves no pending QR behind,
\* whatever it answers; it sends at most one photo, and none when it finds
\* no pending QR, which it then reports.
C34_PendingQrIsConsumedOnce ==
    [][(/\ event' # NoCall
        /\ event'.handler = "qr_callback"
        /\ is_allowed_user(event'.user_id))
          => /\ ~user_data'[event'.user_id].qr_pending.present
             /\ Photos(outbox') <= Photos(outbox) + 1
             /\ ~user_data[event'.user_id].qr_pending.present
                   => outbox' = outbox /\ replies' = <<MSG_NO_QR>>]_vars

\* One QR was asked for, its photo was sent, and the button pressed again.
C34_Witness ==
    /\ calls = 1
    /\ Photos(outbox) = 1
    /\ event = Event("qr_callback", BotUser, "group")
    /\ replies = <<MSG_NO_QR>>

\* The failed sending also consumed the pending QR.
C34_WitnessFailure ==
    /\ calls = 1
    /\ Photos(outbox) = 0
    /\ event = Event("qr_callback", BotUser, "private")
    /\ replies = <<MSG_QR_FAILED>>
    /\ ~user_data[BotUser].qr_pending.present

\* C35: a 'qr:' callback of an allowed user that finds a pending QR made
\* more than 300 seconds ago removes it, says that it expired and sends
\* nothing; one that finds a younger pending QR does not say so.
C35_ExpiresAfterFiveMinutes ==
    [][(/\ event' # NoCall
        /\ event'.handler = "qr_callback"
        /\ is_allowed_user(event'.user_id)
        /\ user_data[event'.user_id].qr_pending.present)
          => IF now - user_data[event'.user_id].qr_pending.created_at > 300
             THEN /\ ~user_data'[event'.user_id].qr_pending.present
                  /\ replies' = <<MSG_QR_EXPIRED>>
                  /\ outbox' = outbox
             ELSE replies' # <<MSG_QR_EXPIRED>>]_vars

\* A QR made at 0 was found at 301: it had expired.
C35_Witness ==
    /\ now = 301
    /\ event = Event("qr_callback", BotUser, "private")
    /\ replies = <<MSG_QR_EXPIRED>>
    /\ request # NoRequest
    /\ ~user_data[BotUser].qr_pending.present

\* The QR made at 0 was found at 300 and sent.
C35_WitnessAtTheLimit ==
    /\ now = 300
    /\ calls = 1
    /\ event = Event("qr_callback", BotUser, "private")
    /\ replies = <<Msg("Da gui QR vao chat rieng.")>>
    /\ Photos(outbox) = 1

----------------------------------------------------------------------------
(* C38, C39: the bill                                                      *)

\* C38: with a bill total above 0 stored, a 'bill:' callback with any
\* integer n either is refused with a message, or stores a pending bill
\* for n people with per > 0, 0 <= remainder < n and
\* per * n + remainder = total; it never ends with an error nobody caught.
C38_BillSplitIsExactOrRefused ==
    [][(/\ event' # NoCall
        /\ event'.handler = "bill_callback"
        /\ is_allowed_user(event'.user_id)
        /\ ~dialog[event'.user_id].bill_total.is_none
        /\ dialog[event'.user_id].bill_total.value > 0
        /\ int_of(event'.input).ok)
          => LET n == int_of(event'.input).value
                 total == dialog[event'.user_id].bill_total.value
                 stored == dialog'[event'.user_id].bill_pending
             IN \/ replies' \in {<<Msg("Tong tien qua nho de chia.")>>,
                                 <<Msg("So nguoi khong hop le.")>>, <<MSG_NO_BILL>>}
                \/ /\ replies' = <<MsgButtons("Xac nhan gui QR vao group?",
                                              <<"billconfirm:yes", "billconfirm:no">>)>>
                   /\ stored.present
                   /\ stored.people = n
                   /\ stored.per > 0
                   /\ 0 <= stored.remainder
                   /\ stored.remainder < n
                   /\ stored.per * n + stored.remainder = total]_vars

\* C39: a photo is sent only by 'billconfirm:yes' of a user with a pending
\* bill with people > 0 and per > 0, a default account and a default
\* group, and the pending bill is gone once it was sent; 'billconfirm:no'
\* removes the pending bill; and a 'billconfirm:yes' that reports a missing
\* account, a missing group or a failed generation sends nothing and keeps
\* the pending bill.
C39_BillIsSentOnceAndKeptOnFailure ==
    [][/\ Photos(outbox') > Photos(outbox)
            => /\ event'.handler = "bill_confirm_callback"
               /\ event'.input = "yes"
               /\ dialog[event'.user_id].bill_pending.present
               /\ dialog[event'.user_id].bill_pending.people > 0
               /\ dialog[event'.user_id].bill_pending.per > 0
               /\ get_default_account(event'.user_id) # NoAccount
               /\ get_default_group_id(event'.user_id) # {NoInt}
               /\ Photos(outbox') = Photos(outbox) + 1
               /\ ~dialog'[event'.user_id].bill_pending.present
       /\ (event'.handler = "bill_confirm_callback" /\ event'.input = "no")
            => ~dialog'[event'.user_id].bill_pending.present
       /\ (/\ event'.handler = "bill_confirm_callback"
           /\ event'.input = "yes"
           /\ replies' \in {<<MSG_NO_ACCOUNT>>, <<MSG_NO_NAME>>, <<MSG_NO_GROUP>>,
                            <<MSG_QR_FAILED>>})
            => /\ dialog'[event'.user_id].bill_pending = dialog[event'.user_id].bill_pending
               /\ dialog[event'.user_id].bill_pending.present
               /\ outbox' = outbox]_vars

====
